---- MODULE Spec2Model ----
(***************************************************************************)
(* Verification model of the audio pipeline's asynchronous upload stage    *)
(* (streaming_storage_manager.py, AsyncRsyncStorageManager) and of the     *)
(* persistence stage that feeds it (streaming_tar_processor.py,            *)
(* hpc_process_single_tar.py, hpc_process_day.py).                         *)
(* Further specifications cover the archive reader, conversion and         *)
(* transcription stages of the streaming processor (SpecStages), the day   *)
(* orchestrator of hpc_process_day.py (SpecDay) and the day status         *)
(* written by _update_processing_stats (SpecStats), a whole run of the     *)
(* streaming processor from construction to exit (SpecRun), the dummy      *)
(* manager beside the real one (SpecDummy), the stores of                  *)
(* metadata_process.py and the queue loaders run twice (SpecTables), the   *)
(* processing queue of db_utils.py (SpecQueue), the parsing of file names  *)
(* (SpecNames), get_storage_path of the four managers (SpecPaths), two     *)
(* schedulers claiming dates of the processing queue (SpecSched) and one   *)
(* upload followed through its retries (SpecRetry).                        *)
(*                                                                         *)
(* Threads: one main (pipeline) thread and the worker threads of the       *)
(* upload ThreadPoolExecutor.  upload_lock is modelled explicitly: a       *)
(* worker acquires it in one step and runs the guarded block               *)
(* (and releases) in the next; a main-thread block guarded by the lock is  *)
(* one step that requires the lock to be free.                             *)
(* Time is counted in seconds of the main thread's time.sleep(1) polling.  *)
(***************************************************************************)
EXTENDS Integers, Sequences, FiniteSets, TLC

\* ------------------------------------------------------------------ bounds
MaxTasks == 2          \* accepted uploads per run
MaxIds == 2            \* distinct tracking ids offered by the caller
MaxRetriesCfg == 3     \* max_retries is configured in 0..MaxRetriesCfg
MaxWorkersCfg == 2     \* max_concurrent_uploads is configured in 1..MaxWorkersCfg
MaxTimeout == 1        \* wait_for_completion timeouts are None or 0..MaxTimeout
MaxItems == 3          \* converted and transcribed items per pipeline run
MaxBatch == 3          \* items per sub-batch
MaxMembers == 3        \* members of an archive
MaxStreamBatch == 2    \* stream_batch_size is configured in 1..MaxStreamBatch
MaxProcessBatch == 2   \* process_batch_size is configured in 1..MaxProcessBatch
MaxArchives == 2       \* tar files of a day
MaxDayMembers == 2     \* .mp3 members of one tar file of a day
MaxDayBatch == 2       \* batch_size of the day processor is in 1..MaxDayBatch
MaxCount == 9          \* counters offered to _update_processing_stats
MaxRunMembers == 2     \* members of the archive of a whole run
MaxRows == 2           \* rows of a batch, and rows in a table beforehand
MaxKeys == 2           \* distinct natural keys (ids, dates) offered
MaxVals == 2           \* distinct values of the other columns
MaxFields == 3         \* fields of a file name that the code does not fix
MaxSchedulers == 2     \* schedulers working on the queue at the same time
MaxAttempts == 7       \* max_retries of an upload followed attempt by attempt
MaxNumWorkers == 2     \* num_workers is configured in 1..MaxNumWorkers

\* ------------------------------------------------------------- constants
CleanupThreshold == 10000

\* --num-workers, default=8
DefaultNumWorkers == 8
DefaultMaxRetries == 3
PollInterval == 1

None == "None"
Unbound == "<unbound>"
Cancelled == "Cancelled due to timeout"
Free == 0
NoOp == [name |-> "none"]

Paths == {"a.opus", "b.opus"}
Present == {"a.opus"}
TrackIds == 1..MaxIds
NoTimeout == -1
Timeouts == {NoTimeout} \cup (0..MaxTimeout)

\* Outcomes of one transfer attempt as seen by _perform_rsync.
Outcomes == {"ok", "mkdir_failed", "rc_nonzero", "timeout"}

VARIABLES
  max_retries,      \* self.max_retries
  max_workers,      \* ThreadPoolExecutor(max_workers=max_concurrent_uploads)
  local_files,      \* local paths that exist on disk
  tasks,            \* submitted work items, in submission order
  active_uploads,   \* audio_id -> task (its Future)
  upload_results,   \* audio_id -> <<success, error_message>>
  stats,            \* queued / completed / failed / retries
  upload_lock,      \* Free, or the task whose worker holds the lock
  pcMain,           \* position of the main thread
  wait,             \* locals of the running wait_for_completion call
  ev                \* the main-thread call that returned in the last step

mgrVars == <<max_retries, max_workers, local_files, tasks, active_uploads,
             upload_results, stats, upload_lock, pcMain, wait, ev>>

\* One run of the streaming processor's main(): what ended it and the
\* exit code of the process.
VARIABLE run

\* AsyncDummyStorageManager.upload_results: the ids it was given.
VARIABLE dummy

\* A persistence operation run against the relational store a second
\* time: the operation, its input, the table and the row counts.
VARIABLE tbl

\* The processing_queue table that ProcessingQueueManager works on.
VARIABLE queue

\* One use of a function of file names or storage paths: its arguments
\* and what came of it.
VARIABLE call

\* The schedulers that hand dates of the processing queue to workers:
\* where each one stands and what its check found.
VARIABLE sched

\* One upload followed through its attempts: what each attempt did and
\* how long the uploader waited after it.
VARIABLE upload

auxVars == <<run, dummy, tbl, queue, call, sched, upload>>

\* What no action of the manager, the stages or the day processor changes.
cfgVars == <<max_retries, max_workers, auxVars>>

\* HPCTimestampedAudioProcessor.process_day: the day's tar files, the loop
\* over them and the row of processing_queue it finishes with.
VARIABLE day

\* What the archive reader and the batch stages never touch.
mgrVars_but_main == <<cfgVars, tasks, active_uploads, upload_results, stats,
                      upload_lock, wait, day>>

\* The pipeline that owns the manager (StreamingTarProcessor,
\* SingleTarProcessor, HPCTimestampedAudioProcessor) and its database.
VARIABLES
  variant,          \* which processor runs: "streaming", "single_tar", "day"
  db,               \* committed rows: audio_files and transcripts
  txn,              \* the connection's open transaction
  seq,              \* audio_files id sequence (next value)
  batch,            \* the sub-batch being persisted and what happened to it
  counts            \* processed_count / failed_count / upload_count

\* The front stages of StreamingTarProcessor: archive reader, conversion
\* and transcription.
VARIABLES
  stream_batch_size,   \* self.stream_batch_size
  process_batch_size,  \* self.process_batch_size
  archive,             \* the tar file: is it readable, and its members
  reader,              \* the generator _stream_extract_batches and its log
  stage                \* locals of the main thread between the stages

frontVars == <<stream_batch_size, process_batch_size, archive, reader, stage>>

pipeVars == <<variant, db, txn, seq, batch, counts, frontVars, day>>

\* ---------------------------------------------------------------- helpers
Min(a, b) == IF a < b THEN a ELSE b

Del(f, k) == [x \in (DOMAIN f) \ {k} |-> f[x]]

Put(f, k, v) == [x \in (DOMAIN f) \cup {k} |-> IF x = k THEN v ELSE f[x]]

Empty == [x \in {} |-> None]

TaskIds == 1..Len(tasks)

Running(t) == tasks[t].pc \notin {"queued", "done", "cancelled"}

RunningTasks == {t \in TaskIds : Running(t)}

NoWait == [timeout |-> NoTimeout, elapsed |-> 0, timed_out |-> FALSE,
           cancelled |-> {}, shutdown |-> FALSE]

\* _perform_rsync: <<success, error_msg>> for one attempt.
PerformRsync(o) ==
  CASE o = "ok" -> <<TRUE, None>>
    [] o = "mkdir_failed" -> <<FALSE, "Failed to create remote directory">>
    [] o = "rc_nonzero" -> <<FALSE, "stderr">>
    [] o = "timeout" -> <<FALSE, "Upload timeout">>

\* check_upload_status: what the call returns in the current state.
check_upload_status(audio_id) ==
  IF audio_id \in DOMAIN upload_results
  THEN <<IF upload_results[audio_id][1] THEN "completed" ELSE "failed",
         upload_results[audio_id][2]>>
  ELSE IF audio_id \in DOMAIN active_uploads THEN <<"pending", None>>
       ELSE <<"not_found", None>>

get_stats ==
  [queued |-> stats.queued, completed |-> stats.completed,
   failed |-> stats.failed, retries |-> stats.retries,
   pending |-> Cardinality(DOMAIN active_uploads)]

Call(name, args, ret) == [name |-> name, args |-> args, ret |-> ret]

\* ------------------------------------------------------------------- Init
MgrInit ==
  /\ max_retries \in 0..MaxRetriesCfg
  /\ max_workers \in 1..MaxWorkersCfg
  /\ local_files = Present
  /\ tasks = <<>>
  /\ active_uploads = Empty
  /\ upload_results = Empty
  /\ stats = [queued |-> 0, completed |-> 0, failed |-> 0, retries |-> 0]
  /\ upload_lock = Free
  /\ pcMain = "idle"
  /\ wait = NoWait
  /\ ev = NoOp

NoTxn == [aborted |-> FALSE, files |-> {}, transcripts |-> {}]

NoBatch == [first |-> 0, n |-> 0, idx |-> 0, log |-> <<>>,
            opus_paths |-> <<>>, transcripts |-> <<>>,
            batch_processed |-> 0, batch_failed |-> 0]

NoArchive == [readable |-> FALSE, members |-> <<>>]

NoReader == [pc |-> "none", i |-> 0, yielded |-> <<>>, outs |-> <<>>,
             warnings |-> 0, errors |-> 0]

NoStage == [processed_batches |-> 0, batch_files |-> <<>>, off |-> 0,
            audio_paths |-> <<>>, results |-> <<>>, opus_paths |-> <<>>,
            unconverted |-> {}, raised |-> {},
            device |-> "cpu", released |-> TRUE,
            num_workers |-> DefaultNumWorkers, pool |-> <<>>]

NoDay == [tar_files |-> <<>>, batch_size |-> 0, idx |-> 0, off |-> 0,
          opened |-> <<>>, status |-> "processing", error_message |-> None]

NotExited == -1

NoRun == [cause |-> "none", exit_code |-> NotExited]

NoTbl == [op |-> "none"]

NoCall == [fn |-> "none"]

NoSched == <<>>

NoUpload == [mgr |-> "none"]

NoAux ==
  /\ run = NoRun
  /\ dummy = {}
  /\ tbl = NoTbl
  /\ queue = <<>>
  /\ sched = NoSched
  /\ upload = NoUpload
  /\ call = NoCall

NoStages ==
  /\ day = NoDay
  /\ stream_batch_size = 0
  /\ process_batch_size = 0
  /\ archive = NoArchive
  /\ reader = NoReader
  /\ stage = NoStage

NoFront ==
  /\ NoAux
  /\ NoStages

NoPersistence ==
  /\ variant = "none"
  /\ db = [files |-> {}, transcripts |-> {}]
  /\ txn = NoTxn
  /\ seq = 1
  /\ batch = NoBatch
  /\ counts = [processed_count |-> 0, failed_count |-> 0, upload_count |-> 0]

NoPipeline ==
  /\ NoFront
  /\ NoPersistence

\* A manager that was constructed and never used, and no pipeline.
NoManager ==
  /\ max_retries = DefaultMaxRetries
  /\ max_workers = 1
  /\ local_files = {}
  /\ tasks = <<>>
  /\ active_uploads = Empty
  /\ upload_results = Empty
  /\ stats = [queued |-> 0, completed |-> 0, failed |-> 0, retries |-> 0]
  /\ upload_lock = Free
  /\ pcMain = "idle"
  /\ wait = NoWait
  /\ ev = NoOp
  /\ NoStages
  /\ NoPersistence

\* What a Future holds: nothing yet, a returned tuple, or an exception.
NoResult == [raised |-> FALSE, value |-> <<>>]

Returned(success, error_msg) ==
  [raised |-> FALSE, value |-> <<success, error_msg>>]

Raised(exc) == [raised |-> TRUE, value |-> <<exc>>]

\* UploadTask plus the locals of its _execute_upload call and its Future's
\* result `ret`.  Observers of the call: `last` is the outcome of the most
\* recent transfer attempt, `fails` the number of failed attempts, `counted`
\* the number of times this call incremented stats['retries'].
NewTask(local_path, audio_id) ==
  [audio_id |-> audio_id, local_path |-> local_path, retries |-> 0,
   pc |-> "queued", attempt |-> 0, error_msg |-> Unbound, ret |-> NoResult,
   last |-> None, fails |-> 0, counted |-> 0]

\* A work item whose call has ended: its locals are gone.
Finished(r, ret) ==
  [r EXCEPT !.pc = "done", !.attempt = 0, !.error_msg = Unbound, !.ret = ret,
            !.last = None, !.fails = 0, !.counted = 0]

\* --------------------------------------------------- main thread: enqueue
Submit_RegistersLater(local_path, audio_id) ==
  /\ tasks' = Append(tasks, NewTask(local_path, audio_id))
  /\ active_uploads' = active_uploads
  /\ stats' = [stats EXCEPT !.queued = @ + 1]

\* Lines 159-163: the state change of an accepted queue_upload.
Submit(local_path, audio_id) ==
  /\ tasks' = Append(tasks, NewTask(local_path, audio_id))
  /\ active_uploads' = Put(active_uploads, audio_id, Len(tasks) + 1)
  /\ stats' = [stats EXCEPT !.queued = @ + 1]

Exists_Unchecked(local_path) == TRUE

Exists(local_path) == local_path \in local_files

\* Lines 147-166: the call on the manager; a missing file is refused.
Enqueue(local_path, audio_id) ==
  IF ~Exists(local_path)
  THEN /\ ev' = Call("queue_upload", <<local_path, audio_id>>, FALSE)
       /\ UNCHANGED <<tasks, active_uploads, stats>>
  ELSE /\ upload_lock = Free
       /\ Len(tasks) < MaxTasks
       /\ Submit(local_path, audio_id)
       /\ ev' = Call("queue_upload", <<local_path, audio_id>>, TRUE)

queue_upload(local_path, audio_id) ==
  /\ pcMain = "idle"
  /\ Enqueue(local_path, audio_id)
  /\ UNCHANGED <<pipeVars, cfgVars, local_files, upload_results, upload_lock, pcMain,
                 wait>>

QueueUpload == \E p \in Paths, id \in TrackIds : queue_upload(p, id)

CheckUploadStatus ==
  \E id \in TrackIds :
    /\ pcMain = "idle"
    /\ upload_lock = Free
    /\ ev' = Call("check_upload_status", <<id>>, check_upload_status(id))
    /\ UNCHANGED <<pipeVars, cfgVars, local_files, tasks, active_uploads,
                   upload_results, stats, upload_lock, pcMain, wait>>

GetStats ==
  /\ pcMain = "idle"
  /\ upload_lock = Free
  /\ ev' = Call("get_stats", <<>>, get_stats)
  /\ UNCHANGED <<pipeVars, cfgVars, local_files, tasks, active_uploads, upload_results,
                 stats, upload_lock, pcMain, wait>>

cleanup_completed_results ==
  /\ pcMain = "idle"
  /\ upload_lock = Free
  /\ upload_results' = IF Cardinality(DOMAIN upload_results) > CleanupThreshold
                       THEN Empty ELSE upload_results
  /\ ev' = Call("cleanup_completed_results", <<>>, None)
  /\ UNCHANGED <<pipeVars, cfgVars, local_files, tasks, active_uploads, stats,
                 upload_lock, pcMain, wait>>

\* ------------------------------------------------ upload worker threads
SetTask(t, r) == tasks' = [tasks EXCEPT ![t] = r]

CanStart_Unbounded(t) ==
  /\ tasks[t].pc = "queued"
  /\ \A u \in TaskIds : u < t => tasks[u].pc # "queued"

\* A pool thread takes the oldest work item that was not cancelled, if the
\* pool has a thread to spare.
CanStart(t) ==
  /\ tasks[t].pc = "queued"
  /\ \A u \in TaskIds : u < t => tasks[u].pc # "queued"
  /\ Cardinality(RunningTasks) < max_workers

\* _execute_upload is entered; range(max_retries) is empty for
\* max_retries <= 0 and control falls through to line 198.
Start(t) ==
  /\ CanStart(t)
  /\ SetTask(t, [tasks[t] EXCEPT
                   !.pc = IF max_retries > 0 THEN "rsync" ELSE "want_fail"])
  /\ ev' = NoOp
  /\ UNCHANGED <<pipeVars, cfgVars, local_files, active_uploads, upload_results, stats,
                 upload_lock, pcMain, wait>>

AfterAttempt_FirstTryOnly(success, attempt) ==
  IF success /\ attempt = 0 THEN "want_ok"
  ELSE IF attempt < max_retries - 1 THEN "sleep" ELSE "want_fail"

\* Where _execute_upload goes once _perform_rsync has returned in iteration
\* `attempt`: record success, back off and retry, or leave the loop.
AfterAttempt(success, attempt) ==
  IF success THEN "want_ok"
  ELSE IF attempt < max_retries - 1 THEN "sleep" ELSE "want_fail"

RsyncReturn(t, o) ==
  /\ tasks[t].pc = "rsync"
  /\ LET r == PerformRsync(o) IN
       SetTask(t, [tasks[t] EXCEPT
                     !.pc = AfterAttempt(r[1], tasks[t].attempt),
                     !.error_msg = r[2],
                     !.last = o,
                     !.fails = IF r[1] THEN @ ELSE @ + 1])
  /\ ev' = NoOp
  /\ UNCHANGED <<pipeVars, cfgVars, local_files, active_uploads, upload_results, stats,
                 upload_lock, pcMain, wait>>

LockedPc_HeldIntoTransfer(pc) ==
  CASE pc = "want_ok" -> "in_ok"
    [] pc = "sleep" -> "rsync"
    [] pc = "want_fail" -> "in_fail"

\* `with self.upload_lock:` entered by a worker (after time.sleep returned,
\* for the retry count).
LockedPc(pc) ==
  CASE pc = "want_ok" -> "in_ok"
    [] pc = "sleep" -> "in_cnt"
    [] pc = "want_fail" -> "in_fail"

Acquire(t) ==
  /\ tasks[t].pc \in {"want_ok", "sleep", "want_fail"}
  /\ upload_lock = Free
  /\ upload_lock' = t
  /\ SetTask(t, [tasks[t] EXCEPT !.pc = LockedPc(@)])
  /\ ev' = NoOp
  /\ UNCHANGED <<pipeVars, cfgVars, local_files, active_uploads, upload_results, stats,
                 pcMain, wait>>

\* Lines 175-182: success is recorded and the lock released.
RecordOk(t) ==
  /\ tasks[t].pc = "in_ok"
  /\ upload_lock = t
  /\ upload_results' = Put(upload_results, tasks[t].audio_id, <<TRUE, None>>)
  /\ stats' = [stats EXCEPT !.completed = @ + 1]
  /\ active_uploads' = Del(active_uploads, tasks[t].audio_id)
  /\ upload_lock' = Free
  /\ SetTask(t, Finished(tasks[t], Returned(TRUE, None)))
  /\ ev' = NoOp
  /\ UNCHANGED <<pipeVars, cfgVars, local_files, pcMain, wait>>

\* Lines 188-189, then the next loop iteration calls _perform_rsync again.
CountRetry(t) ==
  /\ tasks[t].pc = "in_cnt"
  /\ upload_lock = t
  /\ stats' = [stats EXCEPT !.retries = @ + 1]
  /\ upload_lock' = Free
  /\ SetTask(t, [tasks[t] EXCEPT !.pc = "rsync", !.attempt = @ + 1,
                                 !.counted = @ + 1])
  /\ ev' = NoOp
  /\ UNCHANGED <<pipeVars, cfgVars, local_files, active_uploads, upload_results, pcMain,
                 wait>>

\* Lines 198-204.  error_msg is unbound when the loop body never ran:
\* building the tuple raises UnboundLocalError inside the with block, the
\* lock is released and the Future ends with the exception.
RecordFail(t) ==
  /\ tasks[t].pc = "in_fail"
  /\ upload_lock = t
  /\ upload_lock' = Free
  /\ IF tasks[t].error_msg = Unbound
     THEN /\ SetTask(t, Finished(tasks[t], Raised("UnboundLocalError")))
          /\ UNCHANGED <<upload_results, stats, active_uploads>>
     ELSE /\ upload_results' = Put(upload_results, tasks[t].audio_id,
                                   <<FALSE, tasks[t].error_msg>>)
          /\ stats' = [stats EXCEPT !.failed = @ + 1]
          /\ active_uploads' = Del(active_uploads, tasks[t].audio_id)
          /\ SetTask(t, Finished(tasks[t], Returned(FALSE, tasks[t].error_msg)))
  /\ ev' = NoOp
  /\ UNCHANGED <<pipeVars, cfgVars, local_files, pcMain, wait>>

\* ------------------------------------- main thread: wait_for_completion
EnterWait(timeout, shutdown) ==
  /\ pcMain' = "w_poll"
  /\ wait' = [NoWait EXCEPT !.timeout = timeout, !.shutdown = shutdown]
  /\ ev' = NoOp

WaitBegin(timeout, shutdown) ==
  /\ pcMain = "idle"
  /\ EnterWait(timeout, shutdown)
  /\ UNCHANGED <<pipeVars, cfgVars, local_files, tasks, active_uploads, upload_results,
                 stats, upload_lock>>

\* `if timeout and (time.time() - start_time) > timeout`
TimedOut(timeout, elapsed) ==
  /\ timeout # NoTimeout
  /\ timeout # 0
  /\ elapsed > timeout

\* Lines 301-315: one pass of the polling loop up to the sleep.
WaitPoll ==
  /\ pcMain = "w_poll"
  /\ upload_lock = Free
  /\ IF Cardinality(DOMAIN active_uploads) = 0
     THEN /\ pcMain' = "w_cancel"
          /\ UNCHANGED wait
     ELSE IF TimedOut(wait.timeout, wait.elapsed)
          THEN /\ pcMain' = "w_cancel"
               /\ wait' = [wait EXCEPT !.timed_out = TRUE]
          ELSE /\ pcMain' = "w_sleep"
               /\ UNCHANGED wait
  /\ ev' = NoOp
  /\ UNCHANGED <<pipeVars, cfgVars, local_files, tasks, active_uploads, upload_results,
                 stats, upload_lock>>

\* time.sleep(1).  The elapsed time is compared with the timeout only, so
\* it is kept up to two intervals past the largest timeout, and not at all
\* when the call has no timeout.
ElapsedCap == MaxTimeout + 2 * PollInterval

WaitSleep ==
  /\ pcMain = "w_sleep"
  /\ pcMain' = "w_poll"
  /\ wait' = [wait EXCEPT
                !.elapsed = IF wait.timeout = NoTimeout THEN 0
                            ELSE Min(@ + PollInterval, ElapsedCap)]
  /\ ev' = NoOp
  /\ UNCHANGED <<pipeVars, cfgVars, local_files, tasks, active_uploads, upload_results,
                 stats, upload_lock>>

\* Future.cancel(): only a work item that has not started is cancelled.
CancelFuture(r) ==
  IF r.pc = "queued" THEN [r EXCEPT !.pc = "cancelled"] ELSE r

\* Lines 319-324.
WaitCancel ==
  /\ pcMain = "w_cancel"
  /\ upload_lock = Free
  /\ LET ids == DOMAIN active_uploads
         futs == {active_uploads[i] : i \in ids} IN
       /\ tasks' = [t \in TaskIds |->
                      IF t \in futs THEN CancelFuture(tasks[t]) ELSE tasks[t]]
       /\ upload_results' = [i \in (DOMAIN upload_results) \cup ids |->
                               IF i \in ids THEN <<FALSE, Cancelled>>
                               ELSE upload_results[i]]
       /\ wait' = [wait EXCEPT !.cancelled = ids]
  /\ active_uploads' = Empty
  /\ pcMain' = "w_stats"
  /\ ev' = NoOp
  /\ UNCHANGED <<pipeVars, cfgVars, local_files, stats, upload_lock>>

\* Where the caller of wait_for_completion goes on: shutdown joins the
\* pool, process_tar_file_streaming logs its summary.
AfterWait ==
  IF wait.shutdown THEN "sd_join"
  ELSE IF variant = "streaming" THEN "s_summary" ELSE "idle"

\* Line 326: return self.get_stats(); shutdown goes on to join the pool.
WaitReturn ==
  /\ pcMain = "w_stats"
  /\ upload_lock = Free
  /\ ev' = Call(IF wait.shutdown THEN "shutdown" ELSE "wait_for_completion",
                <<wait.timeout, wait.timed_out, wait.elapsed, wait.cancelled>>,
                get_stats)
  /\ pcMain' = AfterWait
  /\ wait' = NoWait
  /\ UNCHANGED <<pipeVars, cfgVars, local_files, tasks, active_uploads, upload_results,
                 stats, upload_lock>>

\* upload_executor.shutdown(wait=True) returns once every work item that
\* was not cancelled has run to its end.
ExecutorJoined ==
  /\ pcMain = "sd_join"
  /\ \A t \in TaskIds : tasks[t].pc \in {"done", "cancelled"}
  /\ pcMain' = "closed"
  /\ ev' = NoOp
  /\ UNCHANGED <<pipeVars, cfgVars, local_files, tasks, active_uploads, upload_results,
                 stats, upload_lock, wait>>

\* ------------------------------------------------------- specification
vars == <<mgrVars, pipeVars, auxVars>>

WorkerStart == \E t \in TaskIds : Start(t)

WorkerRsyncReturn == \E t \in TaskIds, o \in Outcomes : RsyncReturn(t, o)

WorkerAcquire == \E t \in TaskIds : Acquire(t)

WorkerRecordOk == \E t \in TaskIds : RecordOk(t)

WorkerCountRetry == \E t \in TaskIds : CountRetry(t)

WorkerRecordFail == \E t \in TaskIds : RecordFail(t)

WaitForCompletion == \E T \in Timeouts : WaitBegin(T, FALSE)

Shutdown == \E T \in 1..MaxTimeout : WaitBegin(T, TRUE)

Next ==
  \/ QueueUpload
  \/ CheckUploadStatus
  \/ GetStats
  \/ cleanup_completed_results
  \/ WaitForCompletion
  \/ WaitPoll
  \/ WaitSleep
  \/ WaitCancel
  \/ WaitReturn
  \/ Shutdown
  \/ ExecutorJoined
  \/ WorkerStart
  \/ WorkerRsyncReturn
  \/ WorkerAcquire
  \/ WorkerRecordOk
  \/ WorkerCountRetry
  \/ WorkerRecordFail

Init == MgrInit /\ NoPipeline

Spec == Init /\ [][Next]_vars

\* ================================================== persistence stage
\* The loop of _process_audio_sub_batch / process_audio_batch over the
\* zipped (converted item, transcript) pairs, on one cursor of the single
\* psycopg2 connection (autocommit off): the first execute opens a
\* transaction, a statement the server rejects leaves it failed, every later
\* statement then raises InFailedSqlTransaction, and commit() of a failed
\* transaction rolls it back.
Variants == {"streaming", "single_tar", "day"}

Faults == {"none", "file_insert", "transcript_insert", "upload_failed"}

Mp3Path(k) == <<k, "mp3">>

\* orig_path.name, without the suffix
Name(path) == path[1]

\* mp3_path.with_suffix('.opus')
OpusPath(k) == <<k, "opus">>

Transcript_KeepsDuration(k, ok) ==
  [transcript |-> IF ok THEN "text" ELSE "",
   duration |-> 1, of |-> k]

\* The dict _transcribe_audio_file returns; `of` is the item whose
\* converted file was loaded to produce it.
Transcript(k, ok) ==
  [transcript |-> IF ok THEN "text" ELSE "",
   duration |-> IF ok THEN 1 ELSE 0, of |-> k]

\* zip(opus_paths, transcripts) stops at the shorter sequence.
ZipLen(opus_paths, transcripts) == Min(Len(opus_paths), Len(transcripts))

\* The locals of the persistence loop once conversion and transcription
\* have returned opus_paths and transcripts.
StartPersist(first, opus_paths, transcripts) ==
  [first |-> first, n |-> ZipLen(opus_paths, transcripts), idx |-> 1,
   log |-> <<>>, opus_paths |-> opus_paths, transcripts |-> transcripts,
   batch_processed |-> 0, batch_failed |-> 0]

StoragePath(k) == <<"audio", k>>

FileRow(id, k, file_path) ==
  [id |-> id, filename |-> k, file_path |-> file_path]

TranscriptRow_OtherId(id, k) == [audio_file_id |-> id + 1, of |-> k]

\* INSERT INTO transcripts (audio_file_id, ...) VALUES (db_audio_id, ...)
TranscriptRow(id, k) == [audio_file_id |-> id, of |-> k]

Failed == [aborted |-> TRUE, files |-> {}, transcripts |-> {}]

PipeInit ==
  /\ NoFront
  /\ variant \in Variants
  /\ max_retries = DefaultMaxRetries
  /\ max_workers \in 1..MaxWorkersCfg
  /\ local_files = {}
  /\ tasks = <<>>
  /\ active_uploads = Empty
  /\ upload_results = Empty
  /\ stats = [queued |-> 0, completed |-> 0, failed |-> 0, retries |-> 0]
  /\ upload_lock = Free
  /\ pcMain = "p_idle"
  /\ wait = NoWait
  /\ ev = NoOp
  /\ db = [files |-> {}, transcripts |-> {}]
  /\ txn = NoTxn
  /\ seq = 1
  /\ batch = NoBatch
  /\ counts = [processed_count |-> 0, failed_count |-> 0, upload_count |-> 0]

\* A sub-batch of n converted and transcribed items reaches the loop; the
\* converted files are on local disk.
BeginSubBatch(n) ==
  /\ pcMain = "p_idle"
  /\ batch.first + batch.n + n <= MaxItems + 1
  /\ LET first == IF batch.n = 0 THEN 1 ELSE batch.first + batch.n IN
       batch' = StartPersist(first,
                             [i \in 1..n |-> <<Mp3Path(first + i - 1),
                                               OpusPath(first + i - 1)>>],
                             [i \in 1..n |-> Transcript(first + i - 1, TRUE)])
  /\ local_files' = local_files \cup
       {OpusPath(k) : k \in (batch'.first)..(batch'.first + n - 1)}
  /\ pcMain' = "p_persist"
  /\ ev' = NoOp
  /\ UNCHANGED <<cfgVars, tasks, active_uploads, upload_results, stats,
                 upload_lock, wait, variant, db, txn, seq, counts, frontVars,
                 day>>

\* Does the INSERT INTO audio_files raise?
FileInsertRaises(f) == txn.aborted \/ f = "file_insert"

\* Does the INSERT INTO transcripts raise?  In hpc_process_day.py the
\* statement has four placeholders for three parameters, so execute raises
\* on the client before anything is sent.
TranscriptInsertRaises(f) == variant = "day" \/ f = "transcript_insert"

Logged(k, f, id, outcome) ==
  batch' = [batch EXCEPT
              !.idx = @ + 1,
              !.log = Append(@, [item |-> k, fault |-> f, id |-> id,
                                 outcome |-> outcome]),
              !.batch_processed =
                 IF outcome = "processed" /\ variant # "day" THEN @ + 1 ELSE @,
              !.batch_failed =
                 IF outcome = "failed" /\ variant # "day" THEN @ + 1 ELSE @]

\* hpc_process_day.py counts on self.processed_count / self.failed_count
\* inside the loop; the other two add the batch counters after the commit.
CountedInLoop(outcome) ==
  IF variant = "day"
  THEN counts' = [counts EXCEPT
                    !.processed_count =
                       IF outcome = "processed" THEN @ + 1 ELSE @,
                    !.failed_count = IF outcome = "failed" THEN @ + 1 ELSE @]
  ELSE UNCHANGED counts

\* One pass of the loop body, for the item at batch.idx.
PersistItem(f) ==
  /\ pcMain = "p_persist"
  /\ batch.idx <= batch.n
  /\ variant = "streaming" => (f # "upload_failed" /\ upload_lock = Free)
  /\ LET k == Name(batch.opus_paths[batch.idx][1])
         opus_path == batch.opus_paths[batch.idx][2]
         of == batch.transcripts[batch.idx].of
         id == seq
     IN IF FileInsertRaises(f)
        THEN /\ txn' = Failed
             /\ seq' = IF txn.aborted THEN seq ELSE seq + 1
             /\ Logged(k, f, 0, "failed")
             /\ CountedInLoop("failed")
             /\ ev' = NoOp
             /\ UNCHANGED <<tasks, active_uploads, stats>>
        ELSE IF TranscriptInsertRaises(f)
        THEN /\ txn' = IF variant = "day"
                       THEN [txn EXCEPT
                               !.files = @ \cup {FileRow(id, k, None)}]
                       ELSE Failed
             /\ seq' = seq + 1
             /\ Logged(k, f, id, "failed")
             /\ CountedInLoop("failed")
             /\ ev' = NoOp
             /\ UNCHANGED <<tasks, active_uploads, stats>>
        ELSE IF variant = "streaming"
        THEN /\ seq' = seq + 1
             /\ IF Exists(opus_path)
                THEN /\ Submit(opus_path, id)
                     /\ txn' = [txn EXCEPT
                                  !.files = @ \cup
                                     {FileRow(id, k, StoragePath(k))},
                                  !.transcripts = @ \cup {TranscriptRow(id, of)}]
                     /\ Logged(k, f, id, "processed")
                     /\ counts' = [counts EXCEPT !.upload_count = @ + 1]
                ELSE /\ txn' = [txn EXCEPT
                                  !.files = @ \cup {FileRow(id, k, None)},
                                  !.transcripts = @ \cup {TranscriptRow(id, of)}]
                     /\ Logged(k, f, id, "failed")
                     /\ UNCHANGED <<tasks, active_uploads, stats, counts>>
             /\ ev' = Call("queue_upload", <<opus_path, id>>,
                           Exists(opus_path))
        ELSE /\ seq' = seq + 1
             /\ txn' = [txn EXCEPT
                          !.files = @ \cup
                             {FileRow(id, k, IF f = "upload_failed" THEN None
                                             ELSE StoragePath(k))},
                          !.transcripts = @ \cup {TranscriptRow(id, of)}]
             /\ Logged(k, f, id, "processed")
             /\ CountedInLoop("processed")
             /\ ev' = NoOp
             /\ UNCHANGED <<tasks, active_uploads, stats>>
  /\ UNCHANGED <<cfgVars, local_files, upload_results, upload_lock, pcMain,
                 wait, variant, db, frontVars, day>>

\* Where the caller of the persistence loop goes on: the next sub-batch of
\* the streaming processor, the next batch of the day processor, or the
\* end of process_audio_batch.
AfterCommit ==
  IF reader.pc # "none" THEN "s_batch"
  ELSE IF day.tar_files # <<>> THEN "d_batch" ELSE "p_idle"

\* `for orig_path, opus_path in opus_paths: unlink both`, the end of
\* process_audio_batch in hpc_process_day.py and hpc_process_single_tar.py.
\* The streaming processor removes files per stream batch instead.
CleanedAfterCommit ==
  IF variant = "streaming" THEN local_files
  ELSE local_files \ UNION {{batch.opus_paths[i][1], batch.opus_paths[i][2]} :
                              i \in 1..Len(batch.opus_paths)}

\* self.db.commit() after the loop, then the counters and the cleanup.
Commit ==
  /\ pcMain = "p_persist"
  /\ batch.idx > batch.n
  /\ db' = IF txn.aborted THEN db
           ELSE [files |-> db.files \cup txn.files,
                 transcripts |-> db.transcripts \cup txn.transcripts]
  /\ txn' = NoTxn
  /\ counts' = [counts EXCEPT
                  !.processed_count = @ + batch.batch_processed,
                  !.failed_count = @ + batch.batch_failed]
  /\ local_files' = CleanedAfterCommit
  /\ pcMain' = AfterCommit
  /\ ev' = NoOp
  /\ UNCHANGED <<cfgVars, tasks, active_uploads, upload_results,
                 stats, upload_lock, wait, variant, seq, batch, frontVars,
                 day>>

SubBatch == \E n \in 1..MaxBatch : BeginSubBatch(n)

Persist == \E f \in Faults : PersistItem(f)

PipeNext ==
  \/ SubBatch
  \/ Persist
  \/ Commit
  \/ WorkerStart
  \/ WorkerRsyncReturn
  \/ WorkerAcquire
  \/ WorkerRecordOk
  \/ WorkerCountRetry
  \/ WorkerRecordFail

SpecPipeline == PipeInit /\ [][PipeNext]_vars

\* ====================================== archive reader and batch stages
\* process_tar_file_streaming: the main thread pulls batches of extracted
\* files from the generator _stream_extract_batches, cuts each batch into
\* sub-batches, converts, transcribes and persists each sub-batch, and
\* removes the batch's local files before it pulls the next batch.
IsMp3(m) == m.mp3

\* [m for m in tar.getmembers() if m.name.endswith('.mp3')]
Mp3Members == SelectSeq(archive.members, IsMp3)

Slice_SkipsFirst(s, from, size) == SubSeq(s, from + 2, Min(from + size, Len(s)))

\* s[from:from + size]
Slice(s, from, size) == SubSeq(s, from + 1, Min(from + size, Len(s)))

Members == UNION {[1..n -> [name : 1..MaxMembers, mp3 : BOOLEAN]] :
                    n \in 0..MaxMembers}

\* The archives offered: an unreadable file, or members named by their
\* position of which some are .mp3 files.
Archives ==
  {[readable |-> FALSE, members |-> <<>>]} \cup
  {[readable |-> TRUE, members |-> ms] :
     ms \in {x \in Members : \A j \in 1..Len(x) : x[j].name = j}}

\* tar.extract(member, batch_dir) leaves the file, silently leaves nothing,
\* or raises.
ExtractOutcomes == {"ok", "absent", "raises"}

\* "cuda" if torch.cuda.is_available() else "cpu"
Devices == {"cuda", "cpu"}

\* The stage state of a processor on either device; released tells
\* whether the accelerator cache was emptied and a collection forced
\* since the last call of _batch_transcribe_gpu.
StageInits == {[NoStage EXCEPT !.device = d] : d \in Devices}

\* The same with --num-workers set.  ProcessPoolExecutor raises ValueError
\* for max_workers below 1, so a processor that gets as far as a pool has
\* num_workers >= 1.
StageConfigs == {[st EXCEPT !.num_workers = w] :
                   st \in StageInits, w \in 1..MaxNumWorkers}

\* ProcessPoolExecutor(max_workers=min(self.num_workers, len(audio_paths)))
PoolSize(audio_paths) == Min(stage.num_workers, Len(audio_paths))

IsOk(x) == x[2] = "ok"

\* self.temp_dir / f"stream_{self.date_str}_{self.timestamp}"
StreamWorkDir == <<0, "stream_work_dir">>

\* self.stream_work_dir / f"batch_{i // self.stream_batch_size}"
BatchDir(i) == <<i \div stream_batch_size, "batch_dir">>

\* mp3_members[i:i + self.stream_batch_size]
BatchMembers(i) == Slice(Mp3Members, i, stream_batch_size)

\* batch_files once the inner loop over batch_members has ended.
BatchFiles(members, outs) ==
  LET pairs == [j \in 1..Len(members) |-> <<Mp3Path(members[j].name), outs[j]>>]
      kept == SelectSeq(pairs, IsOk)
  IN [j \in 1..Len(kept) |-> kept[j][1]]

Resumed_Eagerly == pcMain \in {"s_next", "s_batch"}

\* The generator body runs only while the consumer's for statement asks
\* for the next batch.
Resumed == pcMain = "s_next"

ReaderReturns_SkipsWait(errors) ==
  /\ reader' = [reader EXCEPT !.pc = "done", !.errors = @ + errors,
                              !.outs = <<>>]
  /\ pcMain' = "s_summary"
  /\ UNCHANGED <<local_files, stage>>

\* The generator runs to its end: the with block is left, or the outer
\* except logged the failure to open the archive and returned.
ReaderReturns(errors) ==
  /\ reader' = [reader EXCEPT !.pc = "done", !.errors = @ + errors,
                              !.outs = <<>>]
  /\ pcMain' = "s_wait"
  /\ UNCHANGED <<local_files, stage>>

\* One iteration of the loop over range(0, len(mp3_members),
\* stream_batch_size), entered by next() on the generator: batch_dir is
\* made, the batch's members are extracted and the batch is yielded, or
\* dropped and batch_dir removed when a member raised or none was extracted.
ExtractBatch(outs) ==
  /\ Resumed
  /\ reader.pc \in {"start", "suspended"}
  /\ LET members == BatchMembers(reader.i)
         n == Len(members)
         files == BatchFiles(members, outs)
         absent == Cardinality({j \in 1..n : outs[j] = "absent"})
     IN /\ archive.readable
        /\ reader.i < Len(Mp3Members)
        /\ outs \in [1..n -> ExtractOutcomes]
        /\ IF \E j \in 1..n : outs[j] = "raises"
           THEN /\ reader' =
                     [reader EXCEPT
                        !.pc = "suspended",
                        !.i = @ + stream_batch_size, !.outs = outs,
                        !.warnings = @ + Cardinality(
                           {j \in 1..n : outs[j] = "absent" /\
                              \A h \in 1..j : outs[h] # "raises"}),
                        !.errors = @ + 1]
                /\ UNCHANGED <<local_files, stage, pcMain>>
           ELSE IF files = <<>>
           THEN /\ reader' = [reader EXCEPT !.pc = "suspended",
                                            !.i = @ + stream_batch_size,
                                            !.outs = outs,
                                            !.warnings = @ + absent]
                /\ UNCHANGED <<local_files, stage, pcMain>>
           ELSE /\ reader' = [reader EXCEPT !.pc = "suspended",
                                            !.i = @ + stream_batch_size,
                                            !.outs = outs,
                                            !.warnings = @ + absent,
                                            !.yielded = Append(@, files)]
                /\ local_files' = local_files \cup {BatchDir(reader.i)} \cup
                                    {files[j] : j \in 1..Len(files)}
                /\ stage' = [stage EXCEPT !.batch_files = files, !.off = 0]
                /\ pcMain' = "s_batch"
  /\ ev' = NoOp
  /\ UNCHANGED <<mgrVars_but_main, variant, db, txn, seq, batch, counts,
                 stream_batch_size, process_batch_size, archive>>

\* next() on the generator when no batch is left or the archive cannot be
\* opened.
ReaderEnds ==
  /\ Resumed
  /\ reader.pc \in {"start", "suspended"}
  /\ IF ~archive.readable THEN ReaderReturns(1)
     ELSE /\ reader.i >= Len(Mp3Members)
          /\ ReaderReturns(0)
  /\ ev' = NoOp
  /\ UNCHANGED <<mgrVars_but_main, variant, db, txn, seq, batch, counts,
                 stream_batch_size, process_batch_size, archive>>

ConvertToOpus_IgnoresExitCode(mp3_path, ok) ==
  <<mp3_path, OpusPath(Name(mp3_path))>>

\* _convert_to_opus: (mp3_path, opus_path), or (mp3_path, None) when
\* ffmpeg exits non-zero or cannot be run.
ConvertToOpus(mp3_path, ok) ==
  <<mp3_path, IF ok THEN OpusPath(Name(mp3_path)) ELSE None>>

BatchConvert_CompletionOrder(audio_paths, oks) ==
  [j \in 1..Len(audio_paths) |->
     ConvertToOpus(audio_paths[Len(audio_paths) + 1 - j],
                   oks[Len(audio_paths) + 1 - j])]

\* results = list(executor.map(self._convert_to_opus, audio_paths))
BatchConvert(audio_paths, oks) ==
  [j \in 1..Len(audio_paths) |-> ConvertToOpus(audio_paths[j], oks[j])]

Converted(r) == r[2] # None

\* [(orig, opus) for orig, opus in results if opus is not None]
SuccessfulConversions(results) == SelectSeq(results, Converted)

BatchTranscribe_DropsFailed(audio_paths, oks) ==
  LET all == [j \in 1..Len(audio_paths) |->
                Transcript(Name(audio_paths[j]), oks[j])]
      IsText(t) == t.transcript # ""
  IN SelectSeq(all, IsText)

\* _batch_transcribe_gpu: one _transcribe_audio_file call per path, in
\* order.
BatchTranscribe(audio_paths, oks) ==
  [j \in 1..Len(audio_paths) |-> Transcript(Name(audio_paths[j]), oks[j])]

\* _process_audio_sub_batch up to the early return: the next sub-batch is
\* cut from the batch and converted.
ConvertSubBatch(oks) ==
  /\ pcMain = "s_batch"
  /\ stage.off < Len(stage.batch_files)
  /\ LET audio_paths == Slice(stage.batch_files, stage.off, process_batch_size)
         results == BatchConvert(audio_paths, oks)
         opus_paths == SuccessfulConversions(results)
     IN /\ oks \in [1..Len(audio_paths) -> BOOLEAN]
        /\ stage' = [stage EXCEPT
                       !.off = @ + process_batch_size,
                       !.audio_paths = audio_paths,
                       !.results = results,
                       !.pool = <<PoolSize(audio_paths)>>,
                       !.opus_paths = opus_paths,
                       !.unconverted = @ \cup
                          {Name(audio_paths[j]) :
                             j \in {h \in 1..Len(audio_paths) : ~oks[h]}},
                       !.raised = {}]
        /\ local_files' = local_files \cup
                            {OpusPath(Name(audio_paths[j])) :
                               j \in {h \in 1..Len(audio_paths) : oks[h]}}
        /\ pcMain' = IF opus_paths = <<>> THEN "s_batch" ELSE "s_transcribe"
  /\ ev' = NoOp
  /\ UNCHANGED <<mgrVars_but_main, variant, db, txn, seq, batch, counts,
                 stream_batch_size, process_batch_size, archive, reader>>

\* Lines 215-219: the converted files are transcribed and the persistence
\* loop is entered.
TranscribeSubBatch(oks) ==
  /\ pcMain = "s_transcribe"
  /\ LET paths == [j \in 1..Len(stage.opus_paths) |-> stage.opus_paths[j][2]]
         transcripts == BatchTranscribe(paths, oks)
     IN /\ oks \in [1..Len(paths) -> BOOLEAN]
        /\ batch' = StartPersist(Name(stage.opus_paths[1][1]),
                                 stage.opus_paths, transcripts)
        /\ stage' = [stage EXCEPT
                       !.raised = {j \in 1..Len(paths) : ~oks[j]},
                       !.released = FALSE]
  /\ pcMain' = "p_persist"
  /\ ev' = NoOp
  /\ UNCHANGED <<mgrVars_but_main, local_files, variant, db, txn, seq, counts,
                 stream_batch_size, process_batch_size, archive, reader>>

\* _cleanup_batch_files once every sub-batch of the batch is done (each
\* file and its .opus sibling are unlinked, then the emptied batch
\* directory is removed), torch.cuda.empty_cache() and gc.collect() on
\* "cuda" only, and processed_batches += 1.
CleanupBatch ==
  /\ pcMain = "s_batch"
  /\ stage.off >= Len(stage.batch_files)
  /\ local_files' = (local_files \
       UNION {{stage.batch_files[j], OpusPath(Name(stage.batch_files[j]))} :
                j \in 1..Len(stage.batch_files)})
       \ {BatchDir(reader.i - stream_batch_size)}
  /\ stage' = [stage EXCEPT !.processed_batches = @ + 1,
                            !.released = (stage.device = "cuda") \/ @]
  /\ pcMain' = "s_next"
  /\ ev' = NoOp
  /\ UNCHANGED <<mgrVars_but_main, variant, db, txn, seq, batch, counts,
                 stream_batch_size, process_batch_size, archive, reader>>

StagesInit ==
  /\ variant = "streaming"
  /\ max_retries = DefaultMaxRetries
  /\ max_workers \in 1..MaxWorkersCfg
  /\ local_files = {StreamWorkDir}
  /\ tasks = <<>>
  /\ active_uploads = Empty
  /\ upload_results = Empty
  /\ stats = [queued |-> 0, completed |-> 0, failed |-> 0, retries |-> 0]
  /\ upload_lock = Free
  /\ pcMain = "s_next"
  /\ wait = NoWait
  /\ ev = NoOp
  /\ db = [files |-> {}, transcripts |-> {}]
  /\ txn = NoTxn
  /\ seq = 1
  /\ batch = NoBatch
  /\ counts = [processed_count |-> 0, failed_count |-> 0, upload_count |-> 0]
  /\ stream_batch_size \in 1..MaxStreamBatch
  /\ process_batch_size \in 1..MaxProcessBatch
  /\ archive \in Archives
  /\ reader = [NoReader EXCEPT !.pc = "start"]
  /\ stage \in StageConfigs
  /\ day = NoDay
  /\ NoAux

Extract == \E outs \in UNION {[1..n -> ExtractOutcomes] : n \in 1..MaxStreamBatch} :
             ExtractBatch(outs)

Convert == \E oks \in UNION {[1..n -> BOOLEAN] : n \in 0..MaxProcessBatch} :
             ConvertSubBatch(oks)

Transcribe == \E oks \in UNION {[1..n -> BOOLEAN] : n \in 1..MaxProcessBatch} :
                TranscribeSubBatch(oks)

StagesNext ==
  \/ Extract
  \/ ReaderEnds
  \/ Convert
  \/ Transcribe
  \/ Persist
  \/ Commit
  \/ CleanupBatch

SpecStages == StagesInit /\ [][StagesNext]_vars

\* ============================================ one run of the processor
\* main() of streaming_tar_processor.py: the constructor, then
\* process_tar_file_streaming with its wait for the uploads, its summary
\* and its finally block, with the upload workers running beside the main
\* thread.  The archive has at most MaxRunMembers members.
RunArchives == {a \in Archives : Len(a.members) <= MaxRunMembers}

RunInit ==
  /\ variant = "streaming"
  /\ max_retries = DefaultMaxRetries
  /\ max_workers \in 1..MaxWorkersCfg
  /\ local_files = {}
  /\ tasks = <<>>
  /\ active_uploads = Empty
  /\ upload_results = Empty
  /\ stats = [queued |-> 0, completed |-> 0, failed |-> 0, retries |-> 0]
  /\ upload_lock = Free
  /\ pcMain = "s_init"
  /\ wait = NoWait
  /\ ev = NoOp
  /\ db = [files |-> {}, transcripts |-> {}]
  /\ txn = NoTxn
  /\ seq = 1
  /\ batch = NoBatch
  /\ counts = [processed_count |-> 0, failed_count |-> 0, upload_count |-> 0]
  /\ stream_batch_size \in 1..MaxStreamBatch
  /\ process_batch_size \in 1..MaxProcessBatch
  /\ archive \in RunArchives
  /\ reader = [NoReader EXCEPT !.pc = "start"]
  /\ stage \in StageInits
  /\ day = NoDay
  /\ NoAux

runUnchanged == <<max_retries, max_workers, tasks, active_uploads,
                  upload_results, stats, upload_lock, pipeVars,
                  dummy, tbl, queue, call, sched, upload>>

ExitCode_FailsOnFailures(cause) ==
  IF cause = "none" /\ counts.failed_count = 0 /\ stats.failed = 0 THEN 0
  ELSE 1

\* main() returns (exit code 0) unless an exception leaves it.
ExitCode(cause) == IF cause = "none" THEN 0 ELSE 1

\* StreamingTarProcessor.__init__: psycopg2.connect raises when the
\* database cannot be reached; otherwise the manager is created and
\* stream_work_dir is made.
Construct(connected) ==
  /\ pcMain = "s_init"
  /\ IF connected
     THEN /\ local_files' = local_files \cup {StreamWorkDir}
          /\ pcMain' = "s_start"
          /\ UNCHANGED run
     ELSE /\ run' = [cause |-> "db_unreachable",
                     exit_code |-> ExitCode("db_unreachable")]
          /\ pcMain' = "s_exit"
          /\ UNCHANGED local_files
  /\ ev' = NoOp
  /\ UNCHANGED <<runUnchanged, wait>>

\* Lines 88-95: FileNotFoundError is raised before the try statement, so
\* neither the except nor the finally block runs and main() ends with the
\* exception.
StartProcessing(exists) ==
  /\ pcMain = "s_start"
  /\ IF exists
     THEN /\ pcMain' = "s_next"
          /\ UNCHANGED run
     ELSE /\ run' = [cause |-> "tar_missing",
                     exit_code |-> ExitCode("tar_missing")]
          /\ pcMain' = "s_exit"
  /\ ev' = NoOp
  /\ UNCHANGED <<runUnchanged, local_files, wait>>

\* self.db.commit() raises because the connection to the server was lost:
\* the exception leaves _process_audio_sub_batch and the for loop, the
\* except block of process_tar_file_streaming logs and re-raises it.
CommitRaises ==
  /\ pcMain = "p_persist"
  /\ batch.idx > batch.n
  /\ txn' = NoTxn
  /\ run' = [run EXCEPT !.cause = "db_lost"]
  /\ pcMain' = "s_finally"
  /\ ev' = NoOp
  /\ UNCHANGED <<max_retries, max_workers, local_files, tasks, active_uploads,
                 upload_results, stats, upload_lock, wait, variant, db, seq,
                 batch, counts, frontVars, day, dummy, tbl, queue, call, sched, upload>>

\* Line 129: wait_for_completion(timeout=600) once the for loop has ended.
AwaitUploads ==
  /\ pcMain = "s_wait"
  /\ \E T \in 1..MaxTimeout : EnterWait(T, FALSE)
  /\ UNCHANGED <<runUnchanged, local_files, run>>

\* Lines 131-132: the summary of the run with final_stats.
Summary ==
  /\ pcMain = "s_summary"
  /\ pcMain' = "s_finally"
  /\ ev' = Call("summary", <<counts.processed_count, counts.failed_count>>,
                get_stats)
  /\ UNCHANGED <<runUnchanged, local_files, wait, run>>

\* The finally block: _cleanup_work_directory removes stream_work_dir with
\* everything in it, then storage.shutdown() begins with its own
\* wait_for_completion(timeout=300).
RunFinally ==
  /\ pcMain = "s_finally"
  /\ local_files' = {}
  /\ \E T \in 1..MaxTimeout : EnterWait(T, TRUE)
  /\ UNCHANGED <<runUnchanged, run>>

\* shutdown has returned: a pending exception leaves main(), or main()
\* logs the totals and returns.
RunExit ==
  /\ pcMain = "closed"
  /\ pcMain' = "s_exit"
  /\ run' = [run EXCEPT !.exit_code = ExitCode(run.cause)]
  /\ ev' = NoOp
  /\ UNCHANGED <<runUnchanged, local_files, wait>>

Connect == \E connected \in BOOLEAN : Construct(connected)

OpenArchive == \E exists \in BOOLEAN : StartProcessing(exists)

RunNext ==
  \/ Connect
  \/ OpenArchive
  \/ Extract
  \/ ReaderEnds
  \/ Convert
  \/ Transcribe
  \/ Persist
  \/ Commit
  \/ CommitRaises
  \/ CleanupBatch
  \/ AwaitUploads
  \/ WaitPoll
  \/ WaitSleep
  \/ WaitCancel
  \/ WaitReturn
  \/ Summary
  \/ RunFinally
  \/ ExecutorJoined
  \/ RunExit
  \/ WorkerStart
  \/ WorkerRsyncReturn
  \/ WorkerAcquire
  \/ WorkerRecordOk
  \/ WorkerCountRetry
  \/ WorkerRecordFail

SpecRun == RunInit /\ [][RunNext]_vars

\* ===================================================== dummy manager
\* AsyncDummyStorageManager beside AsyncRsyncStorageManager: every
\* queue_upload is made on both, the transport of the networked manager
\* never fails, and the dummy's answers are functions of its upload_results.
dummy_queue_upload(audio_id) == TRUE

dummy_check_upload_status(audio_id) ==
  IF audio_id \in dummy THEN <<"completed", None>> ELSE <<"not_found", None>>

dummy_get_stats ==
  [queued |-> 0, completed |-> Cardinality(dummy), failed |-> 0,
   retries |-> 0, pending |-> 0]

dummy_wait_for_completion == dummy_get_stats

DummyInit ==
  /\ max_retries = DefaultMaxRetries
  /\ max_workers \in 1..MaxWorkersCfg
  /\ local_files = Present
  /\ tasks = <<>>
  /\ active_uploads = Empty
  /\ upload_results = Empty
  /\ stats = [queued |-> 0, completed |-> 0, failed |-> 0, retries |-> 0]
  /\ upload_lock = Free
  /\ pcMain = "idle"
  /\ wait = NoWait
  /\ ev = NoOp
  /\ NoPipeline

\* queue_upload(local_path, remote_path, audio_id) on both managers.
QueueUploadOnBoth(local_path, audio_id) ==
  /\ pcMain = "idle"
  /\ Enqueue(local_path, audio_id)
  /\ dummy' = dummy \cup {audio_id}
  /\ UNCHANGED <<pipeVars, max_retries, max_workers, run, local_files,
                 upload_results, upload_lock, pcMain, wait,
                 tbl, queue, call, sched, upload>>

QueueOnBoth == \E p \in Paths, id \in TrackIds : QueueUploadOnBoth(p, id)

\* A transfer attempt over the transport that always succeeds.
WorkerRsyncSucceeds == \E t \in TaskIds : RsyncReturn(t, "ok")

\* wait_for_completion() without a timeout, until the queue is drained.
WaitUntilDrained == WaitBegin(NoTimeout, FALSE)

DummyNext ==
  \/ QueueOnBoth
  \/ CheckUploadStatus
  \/ GetStats
  \/ WaitUntilDrained
  \/ WaitPoll
  \/ WaitSleep
  \/ WaitCancel
  \/ WaitReturn
  \/ WorkerStart
  \/ WorkerRsyncSucceeds
  \/ WorkerAcquire
  \/ WorkerRecordOk

SpecDummy == DummyInit /\ [][DummyNext]_vars

\* ================================================= relational store
\* Tables are sequences of rows [key, val]: key holds the columns of the
\* table's conflict target, val the other columns.  The tables written
\* with ON CONFLICT carry a unique constraint on key.
StoreKeys == 1..MaxKeys

StoreRows == [key : StoreKeys, val : 1..MaxVals]

Batches == UNION {[1..n -> StoreRows] : n \in 0..MaxRows}

KeysOf(table) == {table[i].key : i \in 1..Len(table)}

\* A table that satisfies its unique constraint.
Unique(table) == Cardinality(KeysOf(table)) = Len(table)

Tables == {t \in Batches : Unique(t)}

UpsertRow_AlwaysAppends(table, row) == Append(table, row)

\* INSERT ... ON CONFLICT (key) DO UPDATE SET val = EXCLUDED.val, for one
\* row of the VALUES list.
UpsertRow(table, row) ==
  IF row.key \in KeysOf(table)
  THEN [i \in 1..Len(table) |->
          IF table[i].key = row.key THEN row ELSE table[i]]
  ELSE Append(table, row)

RECURSIVE UpsertAll(_, _)
UpsertAll(table, batch_data) ==
  IF batch_data = <<>> THEN table
  ELSE UpsertAll(UpsertRow(table, Head(batch_data)), Tail(batch_data))

\* execute_values sends the rows as one INSERT statement (a page holds
\* 1000 rows): PostgreSQL rejects a statement whose VALUES list would
\* update the same row twice, and the except block rolls back and
\* re-raises.
StoreBatch(table, batch_data) ==
  IF ~Unique(batch_data) THEN [table |-> table, raised |-> TRUE]
  ELSE [table |-> UpsertAll(table, batch_data), raised |-> FALSE]

\* _store_metadata_batch, conflict target (meta_id, year, month, date)
store_metadata_batch(table, batch_data) == StoreBatch(table, batch_data)

\* _store_comments_batch, conflict target (cid, meta_id, year, month, date)
store_comments_batch(table, batch_data) == StoreBatch(table, batch_data)

\* _store_subtitles_batch, conflict target (meta_id, year, month, date)
store_subtitles_batch(table, batch_data) == StoreBatch(table, batch_data)

\* processing_queue: key is (year, month, date), val is
\* [location, status].
Locations == {"zurich", "geneva"}

QueueStatuses ==
  {"pending", "transferring", "ready_to_process", "transfer_failed",
   "processing", "completed", "completed_with_errors", "processing_failed"}

QueueRows == [key : StoreKeys, val : [location : Locations,
                                      status : QueueStatuses]]

QueueEntries == [key : StoreKeys, location : Locations]

EntryLists == UNION {[1..n -> QueueEntries] : n \in 0..MaxRows}

\* VALUES (year, month, date, location, 'pending', NOW())
PendingRow(e) ==
  [key |-> e.key, val |-> [location |-> e.location, status |-> "pending"]]

\* ProcessingQueueManager.add_queue_entry: <<table, returned>>.  With
\* skip_existing an existing date is left alone; the INSERT itself does
\* nothing on a conflict.
add_queue_entry(table, e, skip_existing) ==
  IF skip_existing /\ e.key \in KeysOf(table) THEN <<table, FALSE>>
  ELSE IF e.key \in KeysOf(table) THEN <<table, FALSE>>
  ELSE <<Append(table, PendingRow(e)), TRUE>>

\* SELECT id ... WHERE year, month, date AND location match
HasEntry(table, e) ==
  \E i \in 1..Len(table) :
    table[i].key = e.key /\ table[i].val.location = e.location

\* The loop of load_entries_to_database inside its one transaction: the
\* plain INSERT of a date the table already holds violates the unique
\* constraint, the except block returns 0 and nothing is committed.
RECURSIVE LoadLoop(_, _, _, _, _)
LoadLoop(committed, table, entries, skip_existing, loaded) ==
  IF entries = <<>> THEN <<table, loaded>>
  ELSE LET e == Head(entries) IN
       IF skip_existing /\ HasEntry(table, e)
       THEN LoadLoop(committed, table, Tail(entries), skip_existing, loaded)
       ELSE IF e.key \in KeysOf(table) THEN <<committed, 0>>
       ELSE LoadLoop(committed, Append(table, PendingRow(e)), Tail(entries),
                     skip_existing, loaded + 1)

\* load_entries_to_database: <<table, loaded_count>>.
load_entries_to_database(table, entries, skip_existing) ==
  IF entries = <<>> THEN <<table, 0>>
  ELSE LoadLoop(table, table, entries, skip_existing, 0)

\* The persistence loop of a pipeline over the items of an archive, none
\* of whose statements fails: one audio_files row under a fresh id and one
\* transcripts row per item.
RECURSIVE PersistArchive(_, _)
PersistArchive(store, items) ==
  IF items = <<>> THEN store
  ELSE PersistArchive(
         [files |-> store.files \cup
                      {FileRow(store.seq, Head(items), StoragePath(Head(items)))},
          transcripts |-> store.transcripts \cup
                            {TranscriptRow(store.seq, Head(items))},
          seq |-> store.seq + 1],
         Tail(items))

ArchiveItems == UNION {[1..n -> 1..MaxKeys] : n \in 1..MaxRows}

EmptyStore == [files |-> {}, transcripts |-> {}, seq |-> 1]

\* How many rows the operation's tables hold.
RowCount(op, table) ==
  IF op = "persist_archive"
  THEN Cardinality(table.files) + Cardinality(table.transcripts)
  ELSE Len(table)

BatchOps == {"store_metadata_batch", "store_comments_batch",
             "store_subtitles_batch"}

\* The state before the first run of an operation.
Rerun(op, input, skip_existing, table) ==
  [op |-> op, input |-> input, skip_existing |-> skip_existing,
   table |-> table, applied |-> 0, before |-> RowCount(op, table),
   once |-> 0, ret |-> <<>>]

TablesInit ==
  /\ NoManager
  /\ run = NoRun
  /\ queue = <<>>
  /\ sched = NoSched
  /\ upload = NoUpload
  /\ call = NoCall
  /\ dummy = {}
  /\ \/ \E op \in BatchOps, batch_data \in Batches, table \in Tables :
          tbl = Rerun(op, batch_data, FALSE, table)
     \/ \E e \in QueueEntries, skip \in BOOLEAN,
           table \in {t \in [1..1 -> QueueRows] \cup {<<>>} : TRUE} :
          tbl = Rerun("add_queue_entry", e, skip, table)
     \/ \E es \in EntryLists, skip \in BOOLEAN,
           table \in {t \in [1..1 -> QueueRows] \cup {<<>>} : TRUE} :
          tbl = Rerun("load_entries_to_database", es, skip, table)
     \/ \E items \in ArchiveItems :
          tbl = Rerun("persist_archive", items, FALSE, EmptyStore)

tablesUnchanged == <<mgrVars, pipeVars, run, dummy, queue, call, sched, upload>>

\* The operation has run once more on the table.
Applied(table, ret) ==
  tbl' = [tbl EXCEPT
            !.table = table, !.ret = ret, !.applied = @ + 1,
            !.once = IF tbl.applied = 0 THEN RowCount(tbl.op, table) ELSE @]

StoreMetadata ==
  /\ tbl.op = "store_metadata_batch"
  /\ tbl.applied < 2
  /\ LET r == store_metadata_batch(tbl.table, tbl.input)
     IN Applied(r.table, <<r.raised>>)
  /\ UNCHANGED tablesUnchanged

StoreComments ==
  /\ tbl.op = "store_comments_batch"
  /\ tbl.applied < 2
  /\ LET r == store_comments_batch(tbl.table, tbl.input)
     IN Applied(r.table, <<r.raised>>)
  /\ UNCHANGED tablesUnchanged

StoreSubtitles ==
  /\ tbl.op = "store_subtitles_batch"
  /\ tbl.applied < 2
  /\ LET r == store_subtitles_batch(tbl.table, tbl.input)
     IN Applied(r.table, <<r.raised>>)
  /\ UNCHANGED tablesUnchanged

AddQueueEntry ==
  /\ tbl.op = "add_queue_entry"
  /\ tbl.applied < 2
  /\ LET r == add_queue_entry(tbl.table, tbl.input, tbl.skip_existing)
     IN Applied(r[1], <<r[2]>>)
  /\ UNCHANGED tablesUnchanged

LoadEntries ==
  /\ tbl.op = "load_entries_to_database"
  /\ tbl.applied < 2
  /\ LET r == load_entries_to_database(tbl.table, tbl.input,
                                       tbl.skip_existing)
     IN Applied(r[1], <<r[2]>>)
  /\ UNCHANGED tablesUnchanged

PersistArchiveAgain ==
  /\ tbl.op = "persist_archive"
  /\ tbl.applied < 2
  /\ Applied(PersistArchive(tbl.table, tbl.input), <<>>)
  /\ UNCHANGED tablesUnchanged

TablesNext ==
  \/ StoreMetadata
  \/ StoreComments
  \/ StoreSubtitles
  \/ AddQueueEntry
  \/ LoadEntries
  \/ PersistArchiveAgain

SpecTables == TablesInit /\ [][TablesNext]_vars

\* ================================================= processing queue
TransferStatuses == {"transferring", "ready_to_process", "transfer_failed"}

ProcessingStatuses ==
  {"processing", "completed", "processing_failed", "completed_with_errors"}

\* UPDATE processing_queue SET status = %s ... WHERE year = %s AND
\* month = %s AND date = %s
SetStatus(table, key, status) ==
  [i \in 1..Len(table) |->
     IF table[i].key = key
     THEN [table[i] EXCEPT !.val.status = status]
     ELSE table[i]]

update_transfer_status(table, key, status) == SetStatus(table, key, status)

update_processing_status(table, key, status) == SetStatus(table, key, status)

QueueInit ==
  /\ NoManager
  /\ run = NoRun
  /\ dummy = {}
  /\ tbl = NoTbl
  /\ queue = <<>>
  /\ sched = NoSched
  /\ upload = NoUpload
  /\ call = NoCall

queueUnchanged == <<mgrVars, pipeVars, run, dummy, tbl, call, sched, upload>>

QueueAdd(e, skip_existing) ==
  /\ queue' = add_queue_entry(queue, e, skip_existing)[1]
  /\ UNCHANGED queueUnchanged

UpdateTransferStatus(key, status) ==
  /\ queue' = update_transfer_status(queue, key, status)
  /\ UNCHANGED queueUnchanged

UpdateProcessingStatus(key, status) ==
  /\ queue' = update_processing_status(queue, key, status)
  /\ UNCHANGED queueUnchanged

QueueNext ==
  \/ \E e \in QueueEntries, skip_existing \in BOOLEAN :
       QueueAdd(e, skip_existing)
  \/ \E key \in StoreKeys, status \in TransferStatuses :
       UpdateTransferStatus(key, status)
  \/ \E key \in StoreKeys, status \in ProcessingStatuses :
       UpdateProcessingStatus(key, status)

SpecQueue == QueueInit /\ [][QueueNext]_vars

\* ================================================= schedulers
\* check_job_exists: the rows of the date whose status is 'transferring'
\* or 'processing'; the first of them, or None.
JobRows(table, key) ==
  SelectSeq(table, LAMBDA r : r.key = key /\
                              r.val.status \in {"transferring", "processing"})

check_job_exists(table, key) ==
  IF JobRows(table, key) # <<>> THEN <<Head(JobRows(table, key)).val.status>>
  ELSE <<>>

\* The queue tables a scheduler may find: each date queued at most once,
\* in any status.
QueueTables ==
  {t \in UNION {[1..n -> QueueRows] : n \in 1..MaxKeys} :
     /\ Unique(t)
     /\ \A i \in 1..Len(t) : t[i].key = i /\ t[i].val.location = "zurich"}

Schedulers == 1..MaxSchedulers

SchedInit ==
  /\ NoManager
  /\ run = NoRun
  /\ dummy = {}
  /\ tbl = NoTbl
  /\ call = NoCall
  /\ queue \in QueueTables
  /\ sched = [s \in Schedulers |-> [pc |-> "idle", key |-> 0, found |-> <<>>]]
  /\ upload = NoUpload

schedUnchanged == <<mgrVars, pipeVars, run, dummy, tbl, call, upload>>

\* db_utils.py check-job: the scheduler asks whether a job runs for the
\* date.
SchedCheck(s, key) ==
  /\ sched[s].pc = "idle"
  /\ sched' = [sched EXCEPT ![s] = [pc |-> "checked", key |-> key,
                                     found |-> check_job_exists(queue, key)]]
  /\ UNCHANGED <<queue, schedUnchanged>>

\* Exit code 1, "Job exists": the scheduler leaves the date alone.
SchedSkip(s) ==
  /\ sched[s].pc = "checked"
  /\ sched[s].found # <<>>
  /\ sched' = [sched EXCEPT ![s].pc = "skipped"]
  /\ UNCHANGED <<queue, schedUnchanged>>

\* Exit code 0: the scheduler marks the date 'processing' and goes on to
\* process it.
SchedClaim(s) ==
  /\ sched[s].pc = "checked"
  /\ sched[s].found = <<>>
  /\ queue' = update_processing_status(queue, sched[s].key, "processing")
  /\ sched' = [sched EXCEPT ![s].pc = "processing"]
  /\ UNCHANGED schedUnchanged

\* The worker is done with the date.
SchedFinish(s, status) ==
  /\ sched[s].pc = "processing"
  /\ queue' = update_processing_status(queue, sched[s].key, status)
  /\ sched' = [sched EXCEPT ![s].pc = "finished"]
  /\ UNCHANGED schedUnchanged

SchedNext ==
  \/ \E s \in Schedulers, key \in StoreKeys : SchedCheck(s, key)
  \/ \E s \in Schedulers : SchedSkip(s)
  \/ \E s \in Schedulers : SchedClaim(s)
  \/ \E s \in Schedulers,
         status \in {"completed", "completed_with_errors", "processing_failed"} :
       SchedFinish(s, status)

SpecSched == SchedInit /\ [][SchedNext]_vars

\* ================================================= retries
\* One upload is followed through its attempts, by _execute_upload of the
\* asynchronous manager or by upload_file of RsyncStorageManager.  An
\* attempt is one step; upload.made is what the directory creation made
\* since the transfer before gave, upload.transfer whether rsync was
\* started, upload.slept the seconds the uploader sleeps after the attempt.
Uploaders == {"async", "sync"}

\* What one attempt may come to.  "raises" is an exception that is not
\* turned into a result: in _perform_rsync one raised before its try
\* statement (line 209), in upload_file one raised by subprocess.run.
AttemptOutcomes == Outcomes \cup {"raises"}

RetryDelayCap == 30

\* retry_delay = min(2 ** attempt, 30)
retry_delay(attempt) == Min(2 ^ attempt, RetryDelayCap)

\* time.sleep(2 ** attempt)
upload_file_delay(attempt) == 2 ^ attempt

RetryInit ==
  /\ NoStages
  /\ NoPersistence
  /\ max_retries \in 0..MaxAttempts
  /\ max_workers = 1
  /\ local_files = {}
  /\ tasks = <<>>
  /\ active_uploads = Empty
  /\ upload_results = Empty
  /\ stats = [queued |-> 0, completed |-> 0, failed |-> 0, retries |-> 0]
  /\ upload_lock = Free
  /\ pcMain = "idle"
  /\ wait = NoWait
  /\ ev = NoOp
  /\ run = NoRun
  /\ dummy = {}
  /\ tbl = NoTbl
  /\ queue = <<>>
  /\ call = NoCall
  /\ sched = NoSched
  /\ upload \in {[mgr |-> m, pc |-> "start", attempt |-> 0, made |-> "none",
                   transfer |-> FALSE, outcome |-> "none", slept |-> 0,
                   ret |-> "none"] : m \in Uploaders}

retryUnchanged == <<mgrVars, pipeVars, run, dummy, tbl, queue, call, sched>>

Ended(ret) == [upload EXCEPT !.pc = "done", !.ret = ret]

\* upload_file up to its loop: the local file must exist and the remote
\* directory is made once; _execute_upload starts its loop at once.
BeginUpload(exists, mkdir_ok) ==
  /\ upload.pc = "start"
  /\ upload' =
       IF upload.mgr = "async"
       THEN IF max_retries > 0 THEN [upload EXCEPT !.pc = "attempt"]
            ELSE Ended("UnboundLocalError")
       ELSE IF ~exists THEN Ended("False")
       ELSE IF ~mkdir_ok THEN [Ended("False") EXCEPT !.made = "failed"]
       ELSE IF max_retries > 0
            THEN [upload EXCEPT !.pc = "attempt", !.made = "ok"]
            ELSE [Ended("False") EXCEPT !.made = "ok"]
  /\ UNCHANGED retryUnchanged

\* One iteration of the loop of _execute_upload: _perform_rsync makes the
\* directory and, if that worked, runs rsync; an error result is followed
\* by the sleep unless the attempt was the last, an exception by the next
\* iteration.
ExecuteUploadAttempt(o) ==
  /\ upload.pc = "attempt"
  /\ upload.mgr = "async"
  /\ o \in AttemptOutcomes
  /\ LET made == IF o = "raises" THEN "none"
                 ELSE IF o = "mkdir_failed" THEN "failed" ELSE "ok"
         last == ~(upload.attempt < max_retries - 1)
         after == [upload EXCEPT !.made = made, !.transfer = (made = "ok"),
                                 !.outcome = o]
     IN upload' =
          IF o = "raises"
          THEN [after EXCEPT !.pc = IF last THEN "done" ELSE "next",
                             !.ret = IF last THEN "False" ELSE @]
          ELSE CASE AfterAttempt(PerformRsync(o)[1], upload.attempt) = "want_ok"
                      -> [after EXCEPT !.pc = "done", !.ret = "True"]
                 [] AfterAttempt(PerformRsync(o)[1], upload.attempt) = "sleep"
                      -> [after EXCEPT !.pc = "sleep",
                                       !.slept = retry_delay(upload.attempt)]
                 [] AfterAttempt(PerformRsync(o)[1], upload.attempt) = "want_fail"
                      -> [after EXCEPT !.pc = "done", !.ret = "False"]
  /\ UNCHANGED retryUnchanged

\* One iteration of the loop of upload_file: rsync is run; whatever made
\* the attempt fail, the sleep follows unless the attempt was the last.
UploadFileAttempt(o) ==
  /\ upload.pc = "attempt"
  /\ upload.mgr = "sync"
  /\ o \in AttemptOutcomes \ {"mkdir_failed"}
  /\ LET after == [upload EXCEPT !.transfer = TRUE, !.outcome = o]
     IN upload' =
          IF o = "ok" THEN [after EXCEPT !.pc = "done", !.ret = "True"]
          ELSE IF upload.attempt < max_retries - 1
          THEN [after EXCEPT !.pc = "sleep",
                             !.slept = upload_file_delay(upload.attempt)]
          ELSE [after EXCEPT !.pc = "done", !.ret = "False"]
  /\ UNCHANGED retryUnchanged

\* The sleep is over, or there was none: the next iteration begins.
NextAttempt ==
  /\ upload.pc \in {"sleep", "next"}
  /\ upload' = [upload EXCEPT !.pc = "attempt", !.attempt = @ + 1,
                              !.made = "none", !.transfer = FALSE,
                              !.outcome = "none", !.slept = 0]
  /\ UNCHANGED retryUnchanged

RetryNext ==
  \/ \E exists \in BOOLEAN, mkdir_ok \in BOOLEAN : BeginUpload(exists, mkdir_ok)
  \/ \E o \in AttemptOutcomes : ExecuteUploadAttempt(o)
  \/ \E o \in AttemptOutcomes : UploadFileAttempt(o)
  \/ NextAttempt

SpecRetry == RetryInit /\ [][RetryNext]_vars

\* ================================================= file names
\* A file name is a sequence of pieces, the separator '_' and the
\* extension being pieces of their own: 0_2025-01-31_23_50.tar.xz is
\* <<"0", "_", "2025-01-31", "_", "23", "_", "50", ".tar.xz">>.
DateStr == "2025-01-31"

RECURSIVE Join(_)
Join(fields) ==
  IF Len(fields) <= 1 THEN fields
  ELSE <<Head(fields), "_">> \o Join(Tail(fields))

SlotFields == {"23", "50", "xx"}

\* staging_dir.glob(f"0_{self.date_str}_*.tar.xz")
TarNames ==
  {Join(<<"0", DateStr>> \o rest) \o <<".tar.xz">> :
     rest \in UNION {[1..n -> SlotFields] : n \in 1..MaxFields}}

\* str.replace(old, ''), old being one piece
Replace(s, old) == SelectSeq(s, LAMBDA piece : piece # old)

\* str.split('_'): the parts between the separators, cur being the part
\* read so far.
RECURSIVE SplitFrom(_, _)
SplitFrom(s, cur) ==
  IF s = <<>> THEN <<cur>>
  ELSE IF Head(s) = "_" THEN <<cur>> \o SplitFrom(Tail(s), <<>>)
  ELSE SplitFrom(Tail(s), Append(cur, Head(s)))

Split(s) == SplitFrom(s, <<>>)

\* parts are numbered from 0 in the source
extract_timestamp(filename) ==
  LET parts == Split(Replace(filename, ".tar.xz"))
  IN IF Len(parts) >= 5 THEN parts[4] \o <<"_">> \o parts[5]
     ELSE <<"unknown">>

\* The date that (\d{4})-(\d{2})-(\d{2}) finds inside one field, as
\* <<year, month, day>>, or <<>>: the pattern holds no '_', so a match
\* lies inside a field.
DateFields == {"2025-01-31", "x2025-01-30", "2025-13-45", "20250131", "xx"}

DateMatch(field) ==
  CASE field = "2025-01-31" -> <<2025, 1, 31>>
    [] field = "x2025-01-30" -> <<2025, 1, 30>>
    [] field = "2025-13-45" -> <<2025, 13, 45>>
    [] OTHER -> <<>>

\* staging_dir.glob("*_metadata.parquet")
MetadataNames ==
  {Join(fields \o <<"metadata.parquet">>) :
     fields \in UNION {[1..n -> DateFields] : n \in 1..MaxFields}}

\* self.year, self.month, self.day of the processor
DefaultDate == <<2025, 2, 1>>

\* re.search: the leftmost match.
RECURSIVE Search(_)
Search(filename) ==
  IF filename = <<>> THEN <<>>
  ELSE IF DateMatch(Head(filename)) # <<>> THEN DateMatch(Head(filename))
  ELSE Search(Tail(filename))

extract_date_from_filename(filename) ==
  IF Search(filename) # <<>>
  THEN [date |-> Search(filename), warned |-> FALSE]
  ELSE [date |-> DefaultDate, warned |-> TRUE]

NamesInit ==
  /\ NoManager
  /\ run = NoRun
  /\ dummy = {}
  /\ tbl = NoTbl
  /\ queue = <<>>
  /\ sched = NoSched
  /\ upload = NoUpload
  /\ \/ \E name \in TarNames :
          call = [fn |-> "process_day", filename |-> name, done |-> FALSE]
     \/ \E name \in MetadataNames :
          call = [fn |-> "process_month_metadata", filename |-> name,
                  done |-> FALSE]

namesUnchanged == <<mgrVars, pipeVars, run, dummy, tbl, queue, sched, upload>>

\* One turn of the loop of process_day: the archive is handed to
\* process_timestamp_archive under the time slot taken from its name.
ProcessTarFile ==
  /\ call.fn = "process_day"
  /\ ~call.done
  /\ call' = [fn |-> call.fn, filename |-> call.filename, done |-> TRUE,
               processed |-> TRUE, warned |-> FALSE,
               under |-> extract_timestamp(call.filename)]
  /\ UNCHANGED namesUnchanged

\* One turn of the loop over the metadata files: the rows of the file get
\* the date taken from its name and join the batch that is stored.
ReadMetadataFile ==
  /\ call.fn = "process_month_metadata"
  /\ ~call.done
  /\ LET r == extract_date_from_filename(call.filename)
     IN call' = [fn |-> call.fn, filename |-> call.filename, done |-> TRUE,
                 processed |-> TRUE, warned |-> r.warned, under |-> r.date]
  /\ UNCHANGED namesUnchanged

NamesNext ==
  \/ ProcessTarFile
  \/ ReadMetadataFile

SpecNames == NamesInit /\ [][NamesNext]_vars

\* ================================================= storage paths
\* Strings are sequences of characters here, so that two different
\* argument tuples can be seen to run together into one path.
DigitChars == <<"0", "1", "2", "3", "4", "5", "6", "7", "8", "9">>

\* f"{n}" for a natural number
RECURSIVE Str(_)
Str(n) ==
  IF n < 10 THEN <<DigitChars[n + 1]>>
  ELSE Str(n \div 10) \o <<DigitChars[(n % 10) + 1]>>

\* f"{n:02d}" for a natural number
Pad2(n) == IF Len(Str(n)) < 2 THEN <<"0">> \o Str(n) ELSE Str(n)

AudioPrefix == <<"a", "u", "d", "i", "o">>

\* AsyncRsyncStorageManager.get_storage_path
AsyncRsync_get_storage_path(year, month, day_, timestamp, filename) ==
  AudioPrefix \o <<"/">> \o Str(year) \o <<"/">> \o Pad2(month) \o <<"/">>
    \o Pad2(day_) \o <<"/">> \o timestamp \o <<"/">> \o filename

\* AsyncDummyStorageManager.get_storage_path
AsyncDummy_get_storage_path(year, month, day_, timestamp, filename) ==
  AudioPrefix \o <<"/">> \o Str(year) \o <<"/">> \o Pad2(month) \o <<"/">>
    \o Pad2(day_) \o <<"/">> \o timestamp \o <<"/">> \o filename

\* RsyncStorageManager.get_storage_path
Rsync_get_storage_path(year, month, day_, timestamp, filename) ==
  AudioPrefix \o <<"/">> \o Str(year) \o <<"/">> \o Pad2(month) \o <<"/">>
    \o Pad2(day_) \o <<"/">> \o timestamp \o <<"/">> \o filename

Dummy_get_storage_path_Unpadded(year, month, day_, timestamp, filename) ==
  AudioPrefix \o <<"/">> \o Str(year) \o <<"/">> \o Str(month) \o <<"/">>
    \o Str(day_) \o <<"/">> \o timestamp \o <<"/">> \o filename

\* DummyStorageManager.get_storage_path
Dummy_get_storage_path(year, month, day_, timestamp, filename) ==
  AudioPrefix \o <<"/">> \o Str(year) \o <<"/">> \o Pad2(month) \o <<"/">>
    \o Pad2(day_) \o <<"/">> \o timestamp \o <<"/">> \o filename

\* The arguments the processors pass: the date of the run, the time slot
\* (taken from an archive's name, or the --timestamp argument as typed)
\* and the base name of a converted file.
PathYears == {2024, 2025}

PathMonths == {1, 11, 12}

PathDays == {1, 2, 12}

Timeslots ==
  {<<"2", "3", "_", "5", "0">>, <<"2", "3">>, <<"2", "3", "/", "5", "0">>}

BaseNames == {<<"a">>, <<"5", "0">>}

PathArgs == PathYears \X PathMonths \X PathDays \X Timeslots \X BaseNames

StorageManagers == {"AsyncRsyncStorageManager", "AsyncDummyStorageManager",
                    "RsyncStorageManager", "DummyStorageManager"}

PathsInit ==
  /\ NoManager
  /\ run = NoRun
  /\ dummy = {}
  /\ tbl = NoTbl
  /\ queue = <<>>
  /\ sched = NoSched
  /\ upload = NoUpload
  /\ \E a \in PathArgs, b \in PathArgs :
       call = [fn |-> "get_storage_path", a |-> a, b |-> b,
               out |-> [m \in {} |-> <<>>]]

\* The manager has been asked for the paths of both argument tuples.
Asked(manager, path_a, path_b) ==
  /\ call.fn = "get_storage_path"
  /\ manager \notin DOMAIN call.out
  /\ call' = [call EXCEPT
                !.out = [m \in DOMAIN call.out \cup {manager} |->
                           IF m = manager THEN <<path_a, path_b>>
                           ELSE call.out[m]]]
  /\ UNCHANGED namesUnchanged

AskAsyncRsync ==
  Asked("AsyncRsyncStorageManager",
        AsyncRsync_get_storage_path(call.a[1], call.a[2], call.a[3],
                                    call.a[4], call.a[5]),
        AsyncRsync_get_storage_path(call.b[1], call.b[2], call.b[3],
                                    call.b[4], call.b[5]))

AskAsyncDummy ==
  Asked("AsyncDummyStorageManager",
        AsyncDummy_get_storage_path(call.a[1], call.a[2], call.a[3],
                                    call.a[4], call.a[5]),
        AsyncDummy_get_storage_path(call.b[1], call.b[2], call.b[3],
                                    call.b[4], call.b[5]))

AskRsync ==
  Asked("RsyncStorageManager",
        Rsync_get_storage_path(call.a[1], call.a[2], call.a[3],
                               call.a[4], call.a[5]),
        Rsync_get_storage_path(call.b[1], call.b[2], call.b[3],
                               call.b[4], call.b[5]))

AskDummy ==
  Asked("DummyStorageManager",
        Dummy_get_storage_path(call.a[1], call.a[2], call.a[3],
                               call.a[4], call.a[5]),
        Dummy_get_storage_path(call.b[1], call.b[2], call.b[3],
                               call.b[4], call.b[5]))

PathsNext ==
  \/ AskAsyncRsync
  \/ AskAsyncDummy
  \/ AskRsync
  \/ AskDummy

SpecPaths == PathsInit /\ [][PathsNext]_vars

\* ================================================= day orchestrator
\* HPCTimestampedAudioProcessor.process_day (hpc_process_day.py): the tar
\* files of the day are processed in sequence, each by
\* process_timestamp_archive, which cuts the .mp3 members into batches for
\* process_audio_batch; then the metadata step and the day's row of
\* processing_queue.  Uploads are synchronous here.
DayArchives == [readable : {TRUE}, n : 0..MaxDayMembers] \cup
               {[readable |-> FALSE, n |-> 0]}

DayTarFiles == UNION {[1..n -> DayArchives] : n \in 0..MaxArchives}

\* members of tar file a, named apart from those of the other tar files
DayMembers(a) ==
  [j \in 1..day.tar_files[a].n |-> (a - 1) * MaxDayMembers + j]

DayInit ==
  /\ variant = "day"
  /\ max_retries = DefaultMaxRetries
  /\ max_workers \in 1..MaxWorkersCfg
  /\ local_files = {}
  /\ tasks = <<>>
  /\ active_uploads = Empty
  /\ upload_results = Empty
  /\ stats = [queued |-> 0, completed |-> 0, failed |-> 0, retries |-> 0]
  /\ upload_lock = Free
  /\ pcMain = "d_loop"
  /\ wait = NoWait
  /\ ev = NoOp
  /\ db = [files |-> {}, transcripts |-> {}]
  /\ txn = NoTxn
  /\ seq = 1
  /\ batch = NoBatch
  /\ counts = [processed_count |-> 0, failed_count |-> 0, upload_count |-> 0]
  /\ stream_batch_size = 0
  /\ process_batch_size = 0
  /\ archive = NoArchive
  /\ reader = NoReader
  /\ stage = NoStage
  /\ NoAux
  /\ \E fs \in DayTarFiles, b \in 1..MaxDayBatch :
       day = [NoDay EXCEPT !.tar_files = fs, !.batch_size = b]

dayUnchanged == <<cfgVars, tasks, active_uploads, upload_results,
                  stats, upload_lock, wait, variant, db, txn, seq, frontVars>>

\* `if not tar_files: raise ValueError`, logged and re-raised by the outer
\* except.
DayNoTarFiles ==
  /\ pcMain = "d_loop"
  /\ day.tar_files = <<>>
  /\ pcMain' = "d_raised"
  /\ ev' = NoOp
  /\ UNCHANGED <<dayUnchanged, local_files, batch, counts, day>>

ArchiveRaised_Propagates ==
  /\ UNCHANGED counts
  /\ pcMain' = "d_raised"

\* Lines 84-87: an exception of process_timestamp_archive is logged and
\* counted, and the loop goes on with the next tar file.
ArchiveRaised ==
  /\ counts' = [counts EXCEPT !.failed_count = @ + 1]
  /\ pcMain' = "d_loop"

\* The next tar file of the loop: process_timestamp_archive opens it and
\* lists its members, or tarfile.open raises.
DayNextArchive ==
  /\ pcMain = "d_loop"
  /\ day.idx < Len(day.tar_files)
  /\ LET a == day.idx + 1 IN
       /\ day' = [day EXCEPT !.idx = a, !.off = 0, !.opened = Append(@, a)]
       /\ IF day.tar_files[a].readable
          THEN /\ pcMain' = "d_batch"
               /\ UNCHANGED counts
          ELSE ArchiveRaised
  /\ ev' = NoOp
  /\ UNCHANGED <<dayUnchanged, local_files, batch>>

\* The files of batch_dir once conversion has returned: the extracted
\* originals and the outputs of the successful conversions.
BatchDirFiles(audio_paths, opus_paths) ==
  {audio_paths[j] : j \in 1..Len(audio_paths)} \cup
  {opus_paths[j][2] : j \in 1..Len(opus_paths)}

\* process_audio_batch up to its persistence loop: the batch's members are
\* extracted (a raising tar.extract ends the archive, whose finally block
\* removes batch_dir), converted and transcribed.
ProcessAudioBatch(eouts, coks, toks) ==
  /\ pcMain = "d_batch"
  /\ day.off < Len(DayMembers(day.idx))
  /\ LET members == Slice(DayMembers(day.idx), day.off, day.batch_size)
         n == Len(members)
         audio_paths == [j \in 1..n |-> Mp3Path(members[j])]
         opus_paths == SuccessfulConversions(BatchConvert(audio_paths, coks))
         paths == [j \in 1..Len(opus_paths) |-> opus_paths[j][2]]
     IN /\ eouts \in [1..n -> {"ok", "raises"}]
        /\ coks \in [1..n -> BOOLEAN]
        /\ IF \E j \in 1..n : eouts[j] = "raises"
           THEN /\ ArchiveRaised
                /\ local_files' = {}
                /\ UNCHANGED <<batch, day>>
           ELSE /\ day' = [day EXCEPT !.off = @ + day.batch_size]
                /\ local_files' =
                     local_files \cup BatchDirFiles(audio_paths, opus_paths)
                /\ UNCHANGED counts
                /\ IF opus_paths = <<>>
                   THEN UNCHANGED <<batch, pcMain>>
                   ELSE /\ toks \in [1..Len(paths) -> BOOLEAN]
                        /\ batch' = StartPersist(members[1], opus_paths,
                                                 BatchTranscribe(paths, toks))
                        /\ pcMain' = "p_persist"
  /\ ev' = NoOp
  /\ UNCHANGED dayUnchanged

\* The loop over the batches of a tar file has ended; the finally block
\* removes batch_dir with everything in it.
DayArchiveDone ==
  /\ pcMain = "d_batch"
  /\ day.off >= Len(DayMembers(day.idx))
  /\ local_files' = {}
  /\ pcMain' = "d_loop"
  /\ ev' = NoOp
  /\ UNCHANGED <<dayUnchanged, batch, counts, day>>

\* The for loop over tar_files has ended.
DayLoopEnds ==
  /\ pcMain = "d_loop"
  /\ day.tar_files # <<>>
  /\ day.idx = Len(day.tar_files)
  /\ pcMain' = "d_meta"
  /\ ev' = NoOp
  /\ UNCHANGED <<dayUnchanged, local_files, batch, counts, day>>

\* process_day_metadata catches what it raises and touches neither the
\* counters nor the audio tables.
ProcessDayMetadata ==
  /\ pcMain = "d_meta"
  /\ pcMain' = "d_stats"
  /\ ev' = NoOp
  /\ UNCHANGED <<dayUnchanged, local_files, batch, counts, day>>

DayStatus_IgnoresProcessed(failed, processed) ==
  IF failed = 0 THEN "completed" ELSE "completed_with_errors"

\* status = CASE WHEN failed = 0 ... WHEN failed > 0 AND processed > 0 ...
\*          ELSE ... END
DayStatus(failed, processed) ==
  IF failed = 0 THEN "completed"
  ELSE IF failed > 0 /\ processed > 0 THEN "completed_with_errors"
  ELSE "processing_failed"

\* error_message = CASE WHEN failed > 0 THEN 'Failed files: ' || failed ||
\*                 ', Processed: ' || processed ELSE NULL END
ErrorMessage(failed, processed) ==
  IF failed > 0 THEN <<"Failed files: ", failed, ", Processed: ", processed>>
  ELSE None

\* _update_processing_stats: the UPDATE of the day's row and the commit.
UpdateProcessingStats ==
  /\ pcMain = "d_stats"
  /\ day' = [day EXCEPT
               !.status = DayStatus(counts.failed_count, counts.processed_count),
               !.error_message =
                  ErrorMessage(counts.failed_count, counts.processed_count)]
  /\ pcMain' = "d_done"
  /\ ev' = NoOp
  /\ UNCHANGED <<dayUnchanged, local_files, batch, counts>>

ProcessBatch ==
  \E eouts \in UNION {[1..n -> {"ok", "raises"}] : n \in 1..MaxDayBatch},
     coks \in UNION {[1..n -> BOOLEAN] : n \in 1..MaxDayBatch},
     toks \in UNION {[1..n -> BOOLEAN] : n \in 1..MaxDayBatch} :
    ProcessAudioBatch(eouts, coks, toks)

DayNext ==
  \/ DayNoTarFiles
  \/ DayNextArchive
  \/ ProcessBatch
  \/ Persist
  \/ Commit
  \/ DayArchiveDone
  \/ DayLoopEnds
  \/ ProcessDayMetadata
  \/ UpdateProcessingStats

SpecDay == DayInit /\ [][DayNext]_vars

\* _update_processing_stats on its own, for every pair of counters.
StatsInit ==
  /\ max_retries = DefaultMaxRetries
  /\ max_workers = 1
  /\ local_files = {}
  /\ tasks = <<>>
  /\ active_uploads = Empty
  /\ upload_results = Empty
  /\ stats = [queued |-> 0, completed |-> 0, failed |-> 0, retries |-> 0]
  /\ upload_lock = Free
  /\ wait = NoWait
  /\ ev = NoOp
  /\ NoFront
  /\ variant = "day"
  /\ db = [files |-> {}, transcripts |-> {}]
  /\ txn = NoTxn
  /\ seq = 1
  /\ batch = NoBatch
  /\ pcMain = "d_stats"
  /\ \E p, f \in 0..MaxCount :
       counts = [processed_count |-> p, failed_count |-> f, upload_count |-> 0]

StatsNext == UpdateProcessingStats

SpecStats == StatsInit /\ [][StatsNext]_vars

\* ================================================================ claims
Accepted(id) == {t \in TaskIds : tasks[t].audio_id = id}

Terminal(id) == check_upload_status(id)[1] \in {"completed", "failed"}

\* C1 (as claimed): once the status of a tracking id is terminal, a later
\* step never changes what check_upload_status returns for it, nor do the
\* steps of its task move the completed/failed counters.  Stated for ids
\* that were accepted once, so that a second task under the same id is not
\* counted against the claim.
C1_TerminalStatusNeverChanges ==
  [][\A id \in TrackIds :
       (Cardinality(Accepted(id)) = 1 /\ Cardinality(Accepted(id))' = 1
          /\ Terminal(id))
       => /\ check_upload_status(id)' = check_upload_status(id)
          /\ \A t \in Accepted(id) :
               tasks'[t] # tasks[t] =>
                 /\ stats'.completed = stats.completed
                 /\ stats'.failed = stats.failed]_vars

\* C2 (as claimed): when a wait_for_completion call that timed out returns,
\* every task it found outstanding is 'failed' with the cancellation
\* reason, nothing is pending, and the call took at most one polling
\* interval more than the timeout.
C2_TimeoutCancelsOutstanding ==
  (ev.name \in {"wait_for_completion", "shutdown"} /\ ev.args[2])
  => /\ \A id \in ev.args[4] : check_upload_status(id) = <<"failed", Cancelled>>
     /\ ev.ret.pending = 0
     /\ ev.args[3] <= ev.args[1] + PollInterval

C4_ExhaustedRetriesRecordFailure ==
  [][\A t \in TaskIds :
       (tasks[t].pc # "done" /\ tasks'[t].pc = "done" /\ tasks[t].last # "ok")
       => /\ tasks[t].fails <= max_retries
          /\ tasks[t].audio_id \in DOMAIN upload_results'
          /\ upload_results'[tasks[t].audio_id] = <<FALSE, tasks[t].error_msg>>
          /\ tasks[t].error_msg = PerformRsync(tasks[t].last)[2]]_vars

\* C5: queue_upload returns False exactly when the local path does not
\* exist; a rejected call changes nothing; an accepted call registers
\* exactly one new task under the id and adds 1 to 'queued' only.
C5_QueueUploadContract ==
  [][ev'.name = "queue_upload" =>
       LET p == ev'.args[1]
           id == ev'.args[2]
       IN /\ ev'.ret = (p \in local_files)
          /\ ~ev'.ret =>
               UNCHANGED <<tasks, active_uploads, upload_results, stats>>
          /\ ev'.ret =>
               /\ tasks' = Append(tasks, NewTask(p, id))
               /\ DOMAIN active_uploads' = (DOMAIN active_uploads) \cup {id}
               /\ active_uploads'[id] = Len(tasks')
               /\ \A j \in (DOMAIN active_uploads) \ {id} :
                    active_uploads'[j] = active_uploads[j]
               /\ stats' = [stats EXCEPT !.queued = @ + 1]
               /\ upload_results' = upload_results]_vars

C5_Witness ==
  /\ ev.name = "queue_upload"
  /\ ev.ret
  /\ stats.queued = 2
  /\ Cardinality(DOMAIN active_uploads) = 2

C5_WitnessRejected ==
  /\ ev.name = "queue_upload"
  /\ ~ev.ret
  /\ stats.queued = 1

Busy(t) == tasks[t].pc \notin {"done", "cancelled"}

MostRecent(id) == CHOOSE t \in Accepted(id) : \A u \in Accepted(id) : u <= t

\* C6 (as claimed; stated for max_retries > 0): 'not_found' exactly when no task was accepted under the
\* id, 'pending' exactly when a task with the id is queued or running,
\* 'completed'/'failed' exactly when the most recently accepted task with
\* the id has finished with that outcome.
C6_StatusMatchesTasks ==
  \A id \in TrackIds :
    LET st == check_upload_status(id)[1] IN
      max_retries > 0 =>
      /\ (st = "not_found") <=> (Accepted(id) = {})
      /\ (st = "pending") <=> (\E t \in Accepted(id) : Busy(t))
      /\ (st = "completed") <=>
           (Accepted(id) # {} /\ tasks[MostRecent(id)].pc = "done"
              /\ tasks[MostRecent(id)].ret = Returned(TRUE, None))
      /\ (st = "failed") <=>
           (Accepted(id) # {} /\ tasks[MostRecent(id)].pc = "done"
              /\ ~tasks[MostRecent(id)].ret.raised
              /\ tasks[MostRecent(id)].ret.value[1] = FALSE)

\* C7: never more than max_concurrent_uploads tasks are inside
\* _execute_upload (transferring, backing off or recording); the others
\* are still queued.
C7_BoundedConcurrency ==
  Cardinality(RunningTasks) <= max_workers

C7_Witness ==
  /\ Cardinality(RunningTasks) = max_workers
  /\ \E t \in TaskIds : tasks[t].pc = "queued"

\* C8: a worker holds upload_lock only inside one of the three short
\* guarded blocks, never during a transfer or a backoff sleep, and the block
\* it is in can always run to its end; so a main-thread call that needs the
\* lock is held up by no transfer.
C8_LockNotHeldDuringTransfer ==
  /\ upload_lock \in {Free} \cup TaskIds
  /\ \A t \in TaskIds :
       /\ tasks[t].pc \in {"queued", "rsync", "sleep", "want_ok", "want_fail",
                           "done", "cancelled"} => upload_lock # t
       /\ upload_lock = t =>
            /\ tasks[t].pc \in {"in_ok", "in_cnt", "in_fail"}
            /\ ENABLED (RecordOk(t) \/ CountRetry(t) \/ RecordFail(t))
  /\ (upload_lock = Free /\ pcMain = "idle") =>
       /\ ENABLED CheckUploadStatus
       /\ ENABLED GetStats
       /\ Len(tasks) < MaxTasks => ENABLED queue_upload("a.opus", 1)

C8_Witness ==
  /\ ev.name = "queue_upload"
  /\ ev.ret
  /\ \E t \in TaskIds : tasks[t].pc \in {"rsync", "sleep"}
  /\ \E t \in TaskIds : tasks[t].pc = "queued"

InsertFaults == {"file_insert", "transcript_insert"}

Committed(e) ==
  /\ \E r \in db.files : r.id = e.id /\ r.filename = e.item
  /\ \E r \in db.transcripts : r.audio_file_id = e.id /\ r.of = e.item

BatchDone == pcMain = "p_idle" /\ batch.n > 0

Entries == {batch.log[i] : i \in 1..Len(batch.log)}

\* C9 (as claimed): when a sub-batch has been persisted and committed and
\* the insert of exactly one of its items raised, every other item has a
\* committed file row and transcript row, one failure is counted and the
\* others are counted as processed.
C9_PerItemIsolation ==
  (/\ BatchDone
   /\ variant \in {"streaming", "single_tar"}
   /\ Cardinality({i \in 1..batch.n : batch.log[i].fault \in InsertFaults}) = 1
   /\ \A i \in 1..batch.n : batch.log[i].fault \in InsertFaults \cup {"none"})
  => /\ \A i \in 1..batch.n :
          batch.log[i].fault = "none" => Committed(batch.log[i])
     /\ batch.batch_failed = 1
     /\ batch.batch_processed = batch.n - 1

\* C10: every transcript row, committed or pending in the open
\* transaction, references a file row of the same state (committed rows a
\* committed file row; pending rows a file row the same transaction
\* inserted), whatever inserts failed.
C10_TranscriptReferencesFile ==
  /\ \A tr \in db.transcripts : \E r \in db.files : r.id = tr.audio_file_id
  /\ \A tr \in txn.transcripts : \E r \in txn.files : r.id = tr.audio_file_id

C10_Witness ==
  /\ BatchDone
  /\ db.transcripts # {}
  /\ batch.first > 1
  /\ \E e \in Entries : e.fault = "none" /\ Committed(e)
  /\ counts.failed_count > 0

Rows == db.files \cup txn.files

\* C11 (as claimed): no file row, committed or pending in the open
\* transaction, carries a non-null file_path unless the upload task of that
\* file has completed (the streaming processor, whose uploads are tasks of
\* the asynchronous manager under the row's id).
C11_FilePathOnlyAfterReplication ==
  \A r \in Rows :
    (variant = "streaming" /\ r.file_path # None)
    => check_upload_status(r.id) = <<"completed", None>>

\* C12 (as claimed): when a sub-batch has been persisted and committed,
\* every tracking id queue_upload accepted during it belongs to a committed
\* file row with a committed transcript row.
C12_EnqueuedOnlyIfPersisted ==
  BatchDone =>
    \A e \in Entries :
      (\E t \in TaskIds : tasks[t].audio_id = e.id) => Committed(e)

StageItems == 1..Len(stage.audio_paths)

Pos(path) == CHOOSE j \in StageItems : stage.audio_paths[j] = path

TranscriptRows == db.transcripts \cup txn.transcripts

\* C14: of a sub-batch of n items of which k failed to convert, exactly the
\* n-k successful (original, converted) pairs go on, in input order;
\* transcription is given exactly their converted files; and an item whose
\* conversion failed has no file row, no transcript row and no upload task.
C14_ConversionFailureIsolated ==
  /\ LET ok == {j \in StageItems :
                  Name(stage.audio_paths[j]) \notin stage.unconverted}
         n == Len(stage.opus_paths)
     IN /\ n = Cardinality(ok)
        /\ {stage.opus_paths[j] : j \in 1..n} =
             {<<stage.audio_paths[j], OpusPath(Name(stage.audio_paths[j]))>> :
                j \in ok}
        /\ \A j, h \in 1..n :
             j < h => Pos(stage.opus_paths[j][1]) < Pos(stage.opus_paths[h][1])
        /\ pcMain = "p_persist" =>
             /\ Len(batch.transcripts) = n
             /\ \A j \in 1..n :
                  batch.transcripts[j].of = Name(stage.opus_paths[j][2])
  /\ \A k \in stage.unconverted :
       /\ \A r \in Rows : r.filename # k
       /\ \A t \in TranscriptRows : t.of # k
       /\ \A t \in TaskIds : tasks[t].local_path # OpusPath(k)

C14_Witness ==
  /\ pcMain = "p_persist"
  /\ batch.idx > batch.n
  /\ Len(stage.audio_paths) = 2
  /\ Len(stage.opus_paths) = 1
  /\ Name(stage.audio_paths[1]) \in stage.unconverted
  /\ \E t \in TaskIds : tasks[t].local_path = stage.opus_paths[1][2]

\* C15: the transcripts of a sub-batch have the length of the input, entry
\* j was produced by an individual transcription of input j, and an input
\* whose transcription raised has the empty-text, zero-duration record (the
\* persistence loop is entered all the same).
C15_TranscriptionTotal ==
  pcMain = "p_persist" =>
    /\ Len(batch.transcripts) = Len(stage.opus_paths)
    /\ \A j \in 1..Len(stage.opus_paths) :
         /\ batch.transcripts[j].of = Name(stage.opus_paths[j][2])
         /\ j \in stage.raised =>
              /\ batch.transcripts[j].transcript = ""
              /\ batch.transcripts[j].duration = 0

C15_Witness ==
  /\ pcMain = "p_persist"
  /\ Len(batch.transcripts) = 2
  /\ stage.raised = {1}
  /\ batch.transcripts[2].transcript # ""

\* C16: a transcript row stored under a file row with filename F was
\* produced from the converted file of the item named F, whatever
\* conversions and transcriptions failed.
C16_PairingPreserved ==
  \A r \in Rows, t \in TranscriptRows :
    t.audio_file_id = r.id => t.of = r.filename

C16_Witness ==
  /\ Len(stage.audio_paths) = 2
  /\ Name(stage.audio_paths[1]) \in stage.unconverted
  /\ stage.raised # {}
  /\ \E r \in db.files, t \in db.transcripts :
       /\ t.audio_file_id = r.id
       /\ r.filename = Name(stage.audio_paths[2])

RECURSIVE Flatten(_)
Flatten(ss) == IF ss = <<>> THEN <<>> ELSE Head(ss) \o Flatten(Tail(ss))

AllExtracted == reader.warnings = 0 /\ reader.errors = 0

YieldedInOrder ==
  (archive.readable /\ AllExtracted) =>
    /\ \A b \in 1..Len(reader.yielded) :
         Len(reader.yielded[b]) \in 1..stream_batch_size
    /\ Flatten(reader.yielded) =
         [j \in 1..Min(reader.i, Len(Mp3Members)) |->
            Mp3Path(Mp3Members[j].name)]

\* C17: while every member of a readable archive has extracted, each
\* yielded batch has between 1 and stream_batch_size paths and the batches
\* yielded so far, concatenated, are the .mp3 members read so far in
\* archive order, each once (all of them when the generator has ended); and
\* a batch is extracted only when the consumer has finished with every
\* batch yielded before it.
C17_BatchesInOrderAndLazy ==
  [][/\ YieldedInOrder'
     /\ reader'.i # reader.i =>
          stage.processed_batches = Len(reader.yielded)]_vars

C17_Witness ==
  /\ reader.pc = "done"
  /\ archive.readable
  /\ AllExtracted
  /\ stream_batch_size = 1
  /\ Len(archive.members) = 3
  /\ Len(Mp3Members) = 2
  /\ Len(reader.yielded) = 2
  /\ stage.processed_batches = 2

\* C18 (as claimed): when exactly one member of a batch of n >= 2 members
\* cannot be extracted, the reader yields a batch with exactly the other
\* n-1 paths and logs one warning and nothing else.
C18_UnreadableMemberSkipped ==
  [][(/\ reader'.i # reader.i
      /\ Len(reader'.outs) >= 2
      /\ Cardinality({j \in 1..Len(reader'.outs) : reader'.outs[j] # "ok"}) = 1)
     => /\ Len(reader'.yielded) = Len(reader.yielded) + 1
        /\ Len(reader'.yielded[Len(reader'.yielded)]) = Len(reader'.outs) - 1
        /\ reader'.warnings = reader.warnings + 1
        /\ reader'.errors = reader.errors]_vars

C20_DayStatusFromCounters ==
  pcMain = "d_done" =>
    /\ counts.failed_count = 0 => day.status = "completed"
    /\ (counts.failed_count > 0 /\ counts.processed_count > 0)
       => day.status = "completed_with_errors"
    /\ (counts.failed_count > 0 /\ counts.processed_count = 0)
       => day.status = "processing_failed"
    /\ (day.error_message # None) <=> (counts.failed_count > 0)

C20_Witness ==
  /\ pcMain = "d_done"
  /\ day.status = "completed_with_errors"
  /\ counts.failed_count = 2
  /\ counts.processed_count = 3
  /\ day.error_message # None

\* C21 (as claimed): a day of two tar files, the first read and persisted
\* without any failure (every member converted, no statement rejected, no
\* upload refused) and the second unreadable, ends with status
\* 'completed_with_errors' and an error_message of exactly one failed unit
\* and the first archive's items as processed.
C21_FirstArchiveClean ==
  /\ Len(day.tar_files) = 2
  /\ day.tar_files[1].readable
  /\ day.tar_files[1].n \in 1..day.batch_size
  /\ ~day.tar_files[2].readable
  /\ batch.n = day.tar_files[1].n
  /\ Len(batch.log) = batch.n
  /\ \A i \in 1..Len(batch.log) : batch.log[i].fault = "none"

C21_PartialDayCompletesWithErrors ==
  (pcMain = "d_done" /\ C21_FirstArchiveClean) =>
    /\ day.status = "completed_with_errors"
    /\ day.error_message =
         <<"Failed files: ", 1, ", Processed: ", day.tar_files[1].n>>

\* C23 (as claimed): when the extraction of the next batch of an archive
\* begins, no local file of an earlier batch exists, neither an extracted
\* original nor a converted file, whatever became of the item.
C23_EarlierItems ==
  {DayMembers(day.idx)[j] : j \in 1..Min(day.off, Len(DayMembers(day.idx)))}

C23_NothingRetainedAcrossBatches ==
  (pcMain = "d_batch" /\ day.off < Len(DayMembers(day.idx))) =>
    \A k \in C23_EarlierItems :
      Mp3Path(k) \notin local_files /\ OpusPath(k) \notin local_files

\* C22 (as claimed): on every exit path of a run (missing archive file,
\* unreadable archive, partially failed extraction, exception in a later
\* stage, normal end) neither the archive's work directory nor a per-batch
\* directory exists once the run has ended.
C22_TempDirs == {p \in local_files : p[2] \in {"stream_work_dir", "batch_dir"}}

C22_TempDirsRemovedOnExit ==
  pcMain = "s_exit" => C22_TempDirs = {}

\* C24: in a run of the streaming processor every item passes through the
\* stages in the order extract, convert, transcribe, persist,
\* enqueue-upload, cleanup; no file of the next batch is extracted before
\* the files of the current batch are removed; wait_for_completion begins
\* only after the last batch's cleanup; and when the summary is produced
\* no upload is reported pending, and when the process ends after shutdown
\* no upload task is queued or running.
C24_Audio(files) == {p \in files : p[2] \in {"mp3", "opus"}}

C24_StageOrder ==
  LET new == local_files' \ local_files
      newRows == txn'.files \ txn.files
      newTasks == (Len(tasks) + 1)..Len(tasks')
  IN /\ (\E p \in new : p[2] = "mp3") => C24_Audio(local_files) = {}
     /\ \A p \in new : p[2] = "opus" => Mp3Path(p[1]) \in local_files
     /\ (batch' # batch /\ batch'.idx = 1) =>
          \A i \in 1..Len(batch'.opus_paths) :
            batch'.opus_paths[i][2] \in local_files
     /\ \A r \in newRows :
          /\ OpusPath(r.filename) \in local_files
          /\ \E i \in 1..Len(batch.transcripts) :
               batch.transcripts[i].of = r.filename
     /\ \A t \in newTasks :
          \E r \in txn'.files : /\ r.id = tasks'[t].audio_id
                                /\ OpusPath(r.filename) = tasks'[t].local_path
     /\ (pcMain = "s_batch" /\ C24_Audio(local_files) \ local_files' # {}) =>
          /\ txn = NoTxn
          /\ stage.off >= Len(stage.batch_files)
     /\ (pcMain = "s_wait" /\ pcMain' = "w_poll") =>
          /\ C24_Audio(local_files) = {}
          /\ reader.pc = "done"

C24_NothingPendingAtTheEnd ==
  /\ pcMain = "s_summary" =>
       /\ get_stats.pending = 0
       /\ \A t \in TaskIds :
            check_upload_status(tasks[t].audio_id)[1] # "pending"
  /\ (pcMain = "s_exit" /\ run.cause \in {"none", "db_lost"}) =>
       \A t \in TaskIds : tasks[t].pc \in {"done", "cancelled"}

C25_SetupErrors == {"db_unreachable", "db_lost", "tar_missing"}

C25_FailureCounted ==
  \/ counts'.failed_count > counts.failed_count
  \/ reader'.errors > reader.errors
  \/ reader'.warnings > reader.warnings
  \/ stats'.failed > stats.failed
  \/ stats'.retries > stats.retries
  \/ wait'.timed_out /\ ~wait.timed_out
  \/ Cardinality(stage'.unconverted) > Cardinality(stage.unconverted)

C26_Drained ==
  /\ active_uploads = Empty
  /\ \A t \in TaskIds : tasks[t].pc = "done"

C26_DummyEquivalent ==
  /\ ev.name = "queue_upload" => ev.ret = dummy_queue_upload(ev.args[2])
  /\ (C26_Drained /\ ev.name = "check_upload_status") =>
       ev.ret = dummy_check_upload_status(ev.args[1])
  /\ (C26_Drained /\ ev.name = "get_stats") => ev.ret = dummy_get_stats
  /\ (C26_Drained /\ ev.name = "wait_for_completion") =>
       ev.ret = dummy_wait_for_completion

\* C27: storing the same metadata, comments or subtitles batch twice, or
\* adding the same queue entries twice (add_queue_entry,
\* load_entries_to_database), leaves as many rows as doing it once;
\* persisting the same archive twice into audio_files and transcripts
\* adds its rows twice.
C27_RerunRowCounts ==
  tbl.op # "none" /\ tbl.applied = 2 =>
    IF tbl.op = "persist_archive"
    THEN RowCount(tbl.op, tbl.table) - tbl.before
           = 2 * (tbl.once - tbl.before)
    ELSE RowCount(tbl.op, tbl.table) = tbl.once

C27_Witness ==
  /\ tbl.op = "store_metadata_batch"
  /\ tbl.applied = 2
  /\ Len(tbl.input) = 2
  /\ tbl.before = 1
  /\ tbl.once = 2
  /\ tbl.ret = <<FALSE>>
  /\ tbl.input[1].key \in {tbl.table[i].key : i \in 1..Len(tbl.table)}

\* C28: a day's status only moves forward along pending -> transferring
\* -> ready_to_process -> processing -> {completed, completed_with_errors,
\* processing_failed}, with transfer_failed reachable only from
\* transferring: no call of update_transfer_status,
\* update_processing_status or add_queue_entry changes a day's status
\* otherwise.
C28_Forward(from, to) ==
  \/ from = "pending" /\ to = "transferring"
  \/ from = "transferring" /\ to \in {"ready_to_process", "transfer_failed"}
  \/ from = "ready_to_process" /\ to = "processing"
  \/ from = "processing" /\
       to \in {"completed", "completed_with_errors", "processing_failed"}

C28_StatusOf(table, key) ==
  LET i == CHOOSE i \in 1..Len(table) : table[i].key = key
  IN table[i].val.status

C28_StatusOnlyMovesForward ==
  [][\A key \in KeysOf(queue) \cap KeysOf(queue') :
       \/ C28_StatusOf(queue', key) = C28_StatusOf(queue, key)
       \/ C28_Forward(C28_StatusOf(queue, key), C28_StatusOf(queue', key))]_vars

\* C29: a file whose name lacks a well-formed date or time-slot token is
\* skipped with a warning, and nothing of it is processed under a
\* substitute date or time slot.
C29_WellFormed ==
  IF call.fn = "process_day"
  THEN call.filename
         = <<"0", "_", DateStr, "_", "23", "_", "50", ".tar.xz">>
  ELSE \E i \in 1..Len(call.filename) :
         call.filename[i] \in {"2025-01-31", "x2025-01-30"}

C29_MalformedNameSkipped ==
  call.fn \in {"process_day", "process_month_metadata"} /\ call.done
    /\ ~C29_WellFormed
  => ~call.processed /\ call.warned

\* C30: all four storage managers return the same path for the same
\* (year, month, day, timeslot, filename), namely
\* audio/{year}/{month:02d}/{day:02d}/{timeslot}/{filename}, and distinct
\* argument tuples get distinct paths.
C30_TwoDigits(n) == <<DigitChars[(n \div 10) + 1], DigitChars[(n % 10) + 1]>>

C30_FourDigits(n) == C30_TwoDigits(n \div 100) \o C30_TwoDigits(n % 100)

C30_Expected(t) ==
  <<"a", "u", "d", "i", "o", "/">> \o C30_FourDigits(t[1]) \o <<"/">>
    \o C30_TwoDigits(t[2]) \o <<"/">> \o C30_TwoDigits(t[3]) \o <<"/">>
    \o t[4] \o <<"/">> \o t[5]

C30_SamePathEverywhere ==
  call.fn = "get_storage_path" =>
    \A m \in DOMAIN call.out :
      /\ call.out[m][1] = C30_Expected(call.a)
      /\ call.out[m][2] = C30_Expected(call.b)
      /\ call.a # call.b => call.out[m][1] # call.out[m][2]
      /\ \A n \in DOMAIN call.out : call.out[n] = call.out[m]

C30_Witness ==
  /\ call.fn = "get_storage_path"
  /\ DOMAIN call.out = StorageManagers
  /\ call.a[2] = 1 /\ call.a[3] = 12
  /\ call.b[2] = 11 /\ call.b[3] = 2
  /\ call.a[4] = <<"2", "3", "/", "5", "0">> /\ call.a[5] = <<"a">>
  /\ call.b[4] = <<"2", "3">> /\ call.b[5] = <<"5", "0">>

\* C31: every accepted upload task ends 'completed' or 'failed' by its
\* own execution and leaves the active set, so that a
\* wait_for_completion call without a timeout returns: the call is never
\* left polling a non-empty active set when no worker has anything more
\* to run.
C31_NothingLeftToRun ==
  \A t \in TaskIds : tasks[t].pc \in {"done", "cancelled"}

C31_WaitWithoutTimeoutReturns ==
  (/\ pcMain \in {"w_poll", "w_sleep"}
   /\ wait.timeout = NoTimeout
   /\ C31_NothingLeftToRun)
  => DOMAIN active_uploads = {}

\* C32: a local file accepted by queue_upload is not removed by the batch
\* cleanup or the work-directory cleanup before its task is terminal: no
\* worker starts or retries a transfer of a file that is no longer on
\* disk.
C32_BeginsAttempt(t) ==
  /\ tasks[t].pc # "rsync"
  /\ tasks'[t].pc = "rsync"

C32_NoTransferOfRemovedFile ==
  [][\A t \in TaskIds :
       C32_BeginsAttempt(t) => tasks[t].local_path \in local_files]_vars

\* C33: upload_results, active_uploads and stats are read and written
\* under upload_lock only, by the main thread and by the workers, and
\* queue_upload registers a task in active_uploads in the same locked
\* block that submits it, so that a worker recording its result always
\* finds the task registered and leaves no 'pending' entry of it behind.
C33_Shared == <<upload_results, active_uploads, stats>>

C33_InLockedBlock(t) == tasks[t].pc \in {"in_ok", "in_cnt", "in_fail"}

\* The step is one locked block of worker t, left at its end.
C33_WorkerBlock(t) ==
  /\ upload_lock = t
  /\ C33_InLockedBlock(t)
  /\ upload_lock' = Free
  /\ \A u \in TaskIds \ {t} : tasks'[u] = tasks[u]

\* The step is one locked block of the main thread: no worker is inside
\* a block of its own, before or after.
C33_MainBlock ==
  /\ upload_lock = Free
  /\ upload_lock' = Free
  /\ \A t \in TaskIds : ~C33_InLockedBlock(t)

C33_Writes ==
  C33_Shared' # C33_Shared =>
    \/ \E t \in TaskIds : C33_WorkerBlock(t)
    \/ C33_MainBlock

C33_Reads ==
  (ev' # ev /\ ev'.name \in {"check_upload_status", "get_stats",
                             "wait_for_completion", "shutdown"})
  => C33_MainBlock

C33_Registers ==
  Len(tasks') > Len(tasks) =>
    /\ Len(tasks') = Len(tasks) + 1
    /\ C33_MainBlock
    /\ tasks'[Len(tasks')].audio_id \in DOMAIN active_uploads'
    /\ active_uploads'[tasks'[Len(tasks')].audio_id] = Len(tasks')
    /\ stats'.queued = stats.queued + 1

C33_Records ==
  \A t \in TaskIds :
    (tasks[t].pc # "done" /\ tasks'[t].pc = "done" /\ ~tasks'[t].ret.raised)
    => /\ C33_WorkerBlock(t)
       /\ tasks[t].audio_id \in DOMAIN upload_results'
       /\ tasks[t].audio_id \notin DOMAIN active_uploads'

C33_SharedStateUnderLock ==
  [][C33_Writes /\ C33_Reads /\ C33_Registers /\ C33_Records]_vars

C33_Witness ==
  /\ Len(tasks) = 2
  /\ tasks[1].pc = "done"
  /\ tasks[2].pc = "queued"
  /\ tasks[1].audio_id # tasks[2].audio_id
  /\ check_upload_status(tasks[1].audio_id)[1] = "completed"
  /\ check_upload_status(tasks[2].audio_id)[1] = "pending"
  /\ stats.queued = 2

\* C34: whenever get_stats is observed (directly, or as the value
\* returned by wait_for_completion), queued = completed + failed +
\* pending, and the number of ids whose check_upload_status is 'failed'
\* equals the 'failed' statistic, also after wait_for_completion has
\* cancelled outstanding tasks on timeout.
C34_FailedIds == {id \in TrackIds : check_upload_status(id)[1] = "failed"}

C34_StatsConserved ==
  ev.name \in {"get_stats", "wait_for_completion"} =>
    /\ ev.ret.queued = ev.ret.completed + ev.ret.failed + ev.ret.pending
    /\ Cardinality(C34_FailedIds) = ev.ret.failed

\* C35: after every sub-batch processed_count + failed_count has grown by
\* the number of converted items of the sub-batch, upload_count equals
\* processed_count (streaming processor), and processed_count equals the
\* number of committed file rows that have a transcript row.
C35_RowsWithTranscript ==
  {r \in db.files : \E tr \in db.transcripts : tr.audio_file_id = r.id}

C35_CountersMatchDatabase ==
  (BatchDone /\ variant \in {"streaming", "day"}) =>
    /\ counts.processed_count + counts.failed_count
         = batch.first + batch.n - 1
    /\ variant = "streaming" => counts.upload_count = counts.processed_count
    /\ counts.processed_count = Cardinality(C35_RowsWithTranscript)

\* C36: at most one worker processes a given date at a time: of two
\* schedulers that run check_job_exists for the same date, find no job
\* and call update_processing_status(..., 'processing'), at most one goes
\* on to process the date.
C36_OneWorkerPerDate ==
  \A s1, s2 \in DOMAIN sched :
    (/\ s1 # s2
     /\ sched[s1].pc = "processing"
     /\ sched[s2].pc = "processing")
    => sched[s1].key # sched[s2].key

\* C37: a call of _batch_transcribe_gpu.
C37_Transcribes == pcMain = "s_transcribe" /\ pcMain' = "p_persist"

\* C37: accelerator memory is released and a collection is forced between
\* any two consecutive transcription batches: every call of
\* _batch_transcribe_gpu but the first comes after a release-and-collect
\* step that followed the call before it, whatever the batch sizes and the
\* device.
C37_ReleaseBetweenTranscriptions ==
  [][C37_Transcribes => stage.released]_vars

\* C38: an attempt has failed and its index is upload.attempt.
C38_Failed == upload.mgr # "none" /\ upload.outcome \notin {"none", "ok"}

\* C38: the wait after a failed attempt k that is not the last allowed one
\* is min(2^k, 30) seconds, for an error result and for an exception.
C38_WaitsAfterFailure ==
  (C38_Failed /\ upload.attempt < max_retries - 1)
  => /\ upload.pc = "sleep"
     /\ upload.slept = Min(2 ^ upload.attempt, 30)

\* C38: no wait follows the last allowed attempt.
C38_NoWaitAfterLast ==
  (C38_Failed /\ ~(upload.attempt < max_retries - 1))
  => upload.pc = "done" /\ upload.slept = 0

\* C38: a transfer is started only in an attempt that first tried to make
\* the remote directory and succeeded.
C38_DirectoryBeforeTransfer ==
  (upload.mgr # "none" /\ upload.transfer) => upload.made = "ok"

\* C38: retry backoff: after the k-th failed transfer attempt of a task (k
\* from 0) that is not its last allowed attempt the worker waits
\* min(2^k, 30) seconds, whether the attempt failed by error result or by
\* exception; no wait follows the last allowed attempt; the remote
\* directory is made before every transfer attempt and no transfer is
\* started in an attempt whose directory creation failed.
C38_RetryBackoff ==
  /\ C38_WaitsAfterFailure
  /\ C38_NoWaitAfterLast
  /\ C38_DirectoryBeforeTransfer

\* C39: the conversion worker pool is always created with exactly
\* min(num_workers, len(batch)) workers and that number is at least 1: no
\* call of the conversion stage receives an empty batch, for every archive
\* content, stream_batch_size >= 1 and process_batch_size >= 1.
C39_PoolSizedToBatch ==
  stage.pool # <<>> =>
    /\ Len(stage.audio_paths) >= 1
    /\ stage.pool[1] = Min(stage.num_workers, Len(stage.audio_paths))
    /\ stage.pool[1] >= 1

\* C39: with two workers configured, the second batch of the archive holds
\* one file and the pool made for it has one worker.
C39_Witness ==
  /\ stage.num_workers = 2
  /\ process_batch_size = 2
  /\ stage.processed_batches = 1
  /\ Len(stage.audio_paths) = 1
  /\ stage.pool = <<1>>

====
